---- MODULE Spec2Model ----
(***************************************************************************)
(* A model of hayabusa-cloud/iofd: the FD descriptor slot with its atomic  *)
(* close-once swap, the Raw()-guarded operations of FD and of the          *)
(* specialised handles, the errno translator, and the kernel objects the   *)
(* handles talk to.                                                        *)
(*                                                                         *)
(* Granularity: an atomic load or swap of the slot and a kernel call are   *)
(* each one step; the code a goroutine runs between two such points only   *)
(* touches its own locals and is merged into the step before it.           *)
(***************************************************************************)
EXTENDS Integers, Sequences, FiniteSets, TLC

VARIABLES
  kind,   \* which handle type wraps the descriptor
  obj,    \* the handle's fields besides fd: SignalFD.mask, PidFD.pid
  slot,   \* the FD value (int32): a handle number, or -1
  call,   \* per goroutine: the operation in progress and its locals
  kern,   \* the kernel: descriptor table and the object behind the handle
  hist,   \* history: what zcall.Close was asked to release
  ev,     \* the step just taken: a return to the caller, a kernel call, or both
  errno,  \* input of the errno translator
  err,    \* output of the errno translator
  script  \* a caller running a fixed sequence of calls: position and results

\* the variables no operation of a handle touches
others == <<errno, err, script>>
vars == <<kind, obj, slot, call, kern, hist, ev, errno, err, script>>

(***************************************************************************)
(* Bounds                                                                  *)
(***************************************************************************)
NumClosers == 1     \* goroutines that close the handle while it is in use
MaxFd == 1          \* descriptor numbers are 0..MaxFd
CounterBits == 2    \* width of the modelled counter word (uint64 in the code)
MaxErrno == 133      \* errno inputs of the translator are 0..MaxErrno
MaxInit == 0        \* initial counter values are 0..MaxInit
MaxTime == 1        \* the clock runs from 0 to MaxTime nanoseconds
MaxNs == 1          \* timer arguments are -1..MaxNs nanoseconds
MaxSig == 1         \* signals 1..MaxSig are raised and masked
MaxSize == 1        \* a memory file of the mixed model holds at most MaxSize bytes
MaxPid == 1         \* process ids are 1..MaxPid
MaxTicks == 22      \* the timer's clock runs MaxTicks milliseconds
MaxSum == 3         \* Signals are called until their deltas add up to MaxSum

\* Goroutine 1 calls every operation of the handle, Close included; the
\* others race it, and each other, with Close.
User == 1
Closers == 2..(NumClosers + 1)
Procs == {User} \cup Closers
FdNums == 0..MaxFd

(***************************************************************************)
(* Program constants                                                       *)
(***************************************************************************)
InvalidFD == -1
EPERM == 1
EINTR == 4
EIO == 5
EBADF == 9
EAGAIN == 11
ENOMEM == 12
EACCES == 13
EINVAL == 22
EMFILE == 24
EFBIG == 27
ESRCH == 3
NSIG == 64
SIGKILL == 9
SIGSTOP == 19
SIGSYS == 31
NsPerSec == 1000000000
eventfdSize == 8
timerfdSize == 8
TickNs == 1000000     \* time.Millisecond
PeriodTicks == 5      \* TestTimerFD_PeriodicTimer: 5ms initial and interval
SleepTicks == 22      \* TestTimerFD_PeriodicTimer: read after 22ms
signalInfoSize == 128
F_SEAL_SEAL == 1
F_SEAL_SHRINK == 2
F_SEAL_GROW == 4
F_SEAL_WRITE == 8
F_SEAL_FUTURE_WRITE == 16

\* The largest value of the counter word, and the largest value the kernel
\* lets the counter hold (2^64-1 and 2^64-2 at the code's width).
WordMax == 2^CounterBits - 1
CounterMax == WordMax - 1

(***************************************************************************)
(* Errors                                                                  *)
(***************************************************************************)
SemErr(k) == [kind |-> k, code |-> 0]
ErrNil == SemErr("nil")
ErrClosed == SemErr("ErrClosed")
ErrInvalidParam == SemErr("ErrInvalidParam")
ErrInterrupted == SemErr("ErrInterrupted")
ErrNoMemory == SemErr("ErrNoMemory")
ErrPermission == SemErr("ErrPermission")
ErrWouldBlock == SemErr("ErrWouldBlock")
RawErrno(e) == [kind |-> "Errno", code |-> e]

errFromErrno_noEPERM(e) ==
  CASE e = 0 -> ErrNil
    [] e = EAGAIN -> ErrWouldBlock
    [] e = EBADF -> ErrClosed
    [] e = EINVAL -> ErrInvalidParam
    [] e = EINTR -> ErrInterrupted
    [] e = ENOMEM -> ErrNoMemory
    [] e = EACCES -> ErrPermission
    [] OTHER -> RawErrno(e)

errFromErrno(e) ==
  CASE e = 0 -> ErrNil
    [] e = EAGAIN -> ErrWouldBlock
    [] e = EBADF -> ErrClosed
    [] e = EINVAL -> ErrInvalidParam
    [] e = EINTR -> ErrInterrupted
    [] e = ENOMEM -> ErrNoMemory
    [] e = EACCES \/ e = EPERM -> ErrPermission
    [] OTHER -> RawErrno(e)

(***************************************************************************)
(* The 8-byte record of the counter: binary.NativeEndian on a little-      *)
(* endian machine.                                                         *)
(***************************************************************************)
RECURSIVE PutBytes(_, _)
PutBytes(v, n) == IF n = 0 THEN <<>> ELSE <<v % 256>> \o PutBytes(v \div 256, n - 1)

PutUint64(v) == PutBytes(v, eventfdSize)

RECURSIVE GetBytes(_)
GetBytes(b) == IF b = <<>> THEN 0 ELSE Head(b) + 256 * GetBytes(Tail(b))

Uint64(b) == GetBytes(SubSeq(b, 1, eventfdSize))

(***************************************************************************)
(* The kernel.  A primitive returns the set of its possible outcomes:      *)
(* the kernel state after it, the result word, the errno and the bytes it  *)
(* copied out.  An empty set means the caller sleeps in the kernel.        *)
(***************************************************************************)
KOut(k, r, e, d) == [k |-> k, r |-> r, errno |-> e, data |-> d]

\* close(2): the number is released even when the call reports a failure.
zClose(k, fd) ==
  IF fd \notin k.open
  THEN {KOut(k, 0, EBADF, <<>>)}
  ELSE {KOut([k EXCEPT !.open = @ \ {fd}, !.cloexec = @ \ {fd}], 0, e, <<>>) :
          e \in {0, EINTR, EIO}}

EventfdRead_nosem(k, len) ==
  IF len < eventfdSize THEN {KOut(k, 0, EINVAL, <<>>)}
  ELSE IF k.counter = 0
       THEN IF "O_NONBLOCK" \in k.fl THEN {KOut(k, 0, EAGAIN, <<>>)} ELSE {}
       ELSE {KOut([k EXCEPT !.counter = 0], eventfdSize, 0, PutUint64(k.counter))}

EventfdRead_sleep(k, len) ==
  IF len < eventfdSize THEN {KOut(k, 0, EINVAL, <<>>)}
  ELSE IF k.counter = 0
       THEN {}
       ELSE IF k.sem
            THEN {KOut([k EXCEPT !.counter = @ - 1], eventfdSize, 0, PutUint64(1))}
            ELSE {KOut([k EXCEPT !.counter = 0], eventfdSize, 0, PutUint64(k.counter))}

\* read(2) on an eventfd
EventfdRead(k, len) ==
  IF len < eventfdSize THEN {KOut(k, 0, EINVAL, <<>>)}
  ELSE IF k.counter = 0
       THEN IF "O_NONBLOCK" \in k.fl THEN {KOut(k, 0, EAGAIN, <<>>)} ELSE {}
       ELSE IF k.sem
            THEN {KOut([k EXCEPT !.counter = @ - 1], eventfdSize, 0, PutUint64(1))}
            ELSE {KOut([k EXCEPT !.counter = 0], eventfdSize, 0, PutUint64(k.counter))}

EventfdWrite_nolimit(k, buf) ==
  IF Len(buf) < eventfdSize THEN {KOut(k, 0, EINVAL, <<>>)}
  ELSE {KOut([k EXCEPT !.counter = (@ + Uint64(buf)) % (WordMax + 1)],
             eventfdSize, 0, <<>>)}

EventfdWrite_set(k, buf) ==
  IF Len(buf) < eventfdSize THEN {KOut(k, 0, EINVAL, <<>>)}
  ELSE IF Uint64(buf) = WordMax THEN {KOut(k, 0, EINVAL, <<>>)}
  ELSE IF k.counter + Uint64(buf) > CounterMax
       THEN IF "O_NONBLOCK" \in k.fl THEN {KOut(k, 0, EAGAIN, <<>>)} ELSE {}
       ELSE {KOut([k EXCEPT !.counter = Uint64(buf)], eventfdSize, 0, <<>>)}

\* write(2) on an eventfd
EventfdWrite(k, buf) ==
  IF Len(buf) < eventfdSize THEN {KOut(k, 0, EINVAL, <<>>)}
  ELSE IF Uint64(buf) = WordMax THEN {KOut(k, 0, EINVAL, <<>>)}
  ELSE IF k.counter + Uint64(buf) > CounterMax
       THEN IF "O_NONBLOCK" \in k.fl THEN {KOut(k, 0, EAGAIN, <<>>)} ELSE {}
       ELSE {KOut([k EXCEPT !.counter = @ + Uint64(buf)], eventfdSize, 0, <<>>)}

\* Bit masks (SigSet, the seal word): w is the weight of one bit.
HasBit(m, w) == (m \div w) % 2 = 1
SealBits == {F_SEAL_SEAL, F_SEAL_SHRINK, F_SEAL_GROW, F_SEAL_WRITE, F_SEAL_FUTURE_WRITE}
AllSeals == F_SEAL_SEAL + F_SEAL_SHRINK + F_SEAL_GROW + F_SEAL_WRITE + F_SEAL_FUTURE_WRITE
RECURSIVE SumOf(_)
SumOf(S) == IF S = {} THEN 0 ELSE LET x == CHOOSE y \in S : TRUE IN x + SumOf(S \ {x})
BitOr(a, b) == SumOf({w \in SealBits : HasBit(a, w) \/ HasBit(b, w)})
\* the signals of a SigSet: bit N stands for signal N+1
SigSetMembers(m) == {sig \in 1..SIGSYS : HasBit(m, 2^(sig - 1))}

\* Go's / and % on int64 truncate toward zero
GoDiv(a, b) == IF a >= 0 THEN a \div b ELSE -((-a) \div b)
GoMod(a, b) == a - b * GoDiv(a, b)

Min(a, b) == IF a <= b THEN a ELSE b
MinOf(S) == CHOOSE x \in S : \A y \in S : x <= y
Max(a, b) == IF a >= b THEN a ELSE b

\* A timerfd.  Expirations are counted when they are read: `due' is the
\* first expiration not yet reported, `tint' the interval (0: one shot).
TimerExpired_always(k) == k.armed

TimerExpired(k) == k.armed /\ k.due <= k.now

TimerCount_one(k) == IF k.armed /\ k.due <= k.now THEN 1 ELSE 0

TimerCount(k) ==
  IF ~TimerExpired(k) THEN 0
  ELSE IF k.tint = 0 THEN 1
  ELSE (k.now - k.due) \div k.tint + 1

TimerfdRead_stop(k, len) ==
  IF len < timerfdSize THEN {KOut(k, 0, EINVAL, <<>>)}
  ELSE IF TimerCount(k) = 0
       THEN IF "O_NONBLOCK" \in k.fl THEN {KOut(k, 0, EAGAIN, <<>>)} ELSE {}
       ELSE {KOut([k EXCEPT !.armed = FALSE, !.due = 0],
                  timerfdSize, 0, PutUint64(TimerCount(k)))}

TimerfdRead(k, len) ==
  IF len < timerfdSize THEN {KOut(k, 0, EINVAL, <<>>)}
  ELSE IF TimerCount(k) = 0
       THEN IF "O_NONBLOCK" \in k.fl THEN {KOut(k, 0, EAGAIN, <<>>)} ELSE {}
       ELSE {KOut(IF k.tint = 0
                  THEN [k EXCEPT !.armed = FALSE, !.due = 0]
                  ELSE [k EXCEPT !.due = @ + TimerCount(k) * k.tint],
                  timerfdSize, 0, PutUint64(TimerCount(k)))}

ValidTimespec(ts) == ts.sec >= 0 /\ ts.nsec >= 0 /\ ts.nsec < NsPerSec
TimespecNs(ts) == ts.sec * NsPerSec + ts.nsec

zTimerfdSettime_interval(k, fd, abs, new) ==
  IF fd \notin k.open THEN KOut(k, 0, EBADF, <<>>)
  ELSE IF ~ValidTimespec(new.value) \/ ~ValidTimespec(new.interval)
       THEN KOut(k, 0, EINVAL, <<>>)
  ELSE IF TimespecNs(new.value) = 0 /\ TimespecNs(new.interval) = 0
       THEN KOut([k EXCEPT !.armed = FALSE, !.due = 0, !.tint = 0], 0, 0, <<>>)
       ELSE KOut([k EXCEPT !.armed = TRUE,
                           !.due = IF abs THEN TimespecNs(new.value)
                                   ELSE k.now + TimespecNs(new.value)
                                          + (IF TimespecNs(new.value) = 0
                                             THEN TimespecNs(new.interval) ELSE 0),
                           !.tint = TimespecNs(new.interval)], 0, 0, <<>>)

\* timerfd_settime(fd, flags, new, NULL); abs says TFD_TIMER_ABSTIME is set
zTimerfdSettime(k, fd, abs, new) ==
  IF fd \notin k.open THEN KOut(k, 0, EBADF, <<>>)
  ELSE IF ~ValidTimespec(new.value) \/ ~ValidTimespec(new.interval)
       THEN KOut(k, 0, EINVAL, <<>>)
  ELSE IF TimespecNs(new.value) = 0
       THEN KOut([k EXCEPT !.armed = FALSE, !.due = 0,
                           !.tint = TimespecNs(new.interval)], 0, 0, <<>>)
       ELSE KOut([k EXCEPT !.armed = TRUE,
                           !.due = IF abs THEN TimespecNs(new.value)
                                   ELSE k.now + TimespecNs(new.value),
                           !.tint = TimespecNs(new.interval)], 0, 0, <<>>)

\* time left until the next expiration, as timerfd_gettime reports it
TimerRemaining(k) ==
  IF ~k.armed THEN 0
  ELSE IF k.due > k.now THEN k.due - k.now
  ELSE IF k.tint = 0 THEN 0
  ELSE k.tint - ((k.now - k.due) % k.tint)

NsTimespec(ns) == [sec |-> ns \div NsPerSec, nsec |-> ns % NsPerSec]

zTimerfdGettime_clear(k, fd) ==
  IF fd \notin k.open THEN KOut(k, 0, EBADF, <<>>)
  ELSE KOut([k EXCEPT !.armed = FALSE],
            [interval |-> NsTimespec(k.tint),
             value |-> NsTimespec(TimerRemaining(k))], 0, <<>>)

\* timerfd_gettime(fd, curr): r is the itimerspec written to curr
zTimerfdGettime(k, fd) ==
  IF fd \notin k.open THEN KOut(k, 0, EBADF, <<>>)
  ELSE KOut(k, [interval |-> NsTimespec(k.tint),
                value |-> NsTimespec(TimerRemaining(k))], 0, <<>>)

\* read(2) on a signalfd: the lowest pending signal of the mask, as a
\* 128-byte record of which the model keeps the signal number
Deliverable(k) == k.pending \cap k.sigmask

SignalfdRead_all(k, len) ==
  IF len < signalInfoSize THEN {KOut(k, 0, EINVAL, <<>>)}
  ELSE IF Deliverable(k) = {}
       THEN IF "O_NONBLOCK" \in k.fl THEN {KOut(k, 0, EAGAIN, <<>>)} ELSE {}
       ELSE {KOut([k EXCEPT !.pending = @ \ Deliverable(k)],
                  signalInfoSize, 0, <<MinOf(Deliverable(k))>>)}

SignalfdRead(k, len) ==
  IF len < signalInfoSize THEN {KOut(k, 0, EINVAL, <<>>)}
  ELSE IF Deliverable(k) = {}
       THEN IF "O_NONBLOCK" \in k.fl THEN {KOut(k, 0, EAGAIN, <<>>)} ELSE {}
       ELSE {KOut([k EXCEPT !.pending = @ \ {MinOf(Deliverable(k))}],
                  signalInfoSize, 0, <<MinOf(Deliverable(k))>>)}

\* signalfd4(fd, &mask, 8, 0) on an existing signalfd replaces its mask
zSignalfd4(k, fd, mask) ==
  IF fd \notin k.open THEN KOut(k, 0, EBADF, <<>>)
  ELSE KOut([k EXCEPT !.sigmask = SigSetMembers(mask) \ {SIGKILL, SIGSTOP}],
            fd, 0, <<>>)

MemfdSeals_none(sealing) == 0

\* memfd_create(name, flags): the seal set of the new file, which holds
\* F_SEAL_SEAL unless flags has MFD_ALLOW_SEALING
MemfdSeals(sealing) == IF sealing THEN 0 ELSE F_SEAL_SEAL

\* read(2), write(2) on a memfd, at the file offset
MemfdRead(k, len) ==
  {KOut([k EXCEPT !.off = @ + Min(len, Max(k.size - k.off, 0))],
        Min(len, Max(k.size - k.off, 0)), 0, <<>>)}

MemfdWrite(k, buf) ==
  IF HasBit(k.seals, F_SEAL_WRITE) \/ HasBit(k.seals, F_SEAL_FUTURE_WRITE)
  THEN {KOut(k, 0, EPERM, <<>>)}
  ELSE IF k.off + Len(buf) > k.size /\ HasBit(k.seals, F_SEAL_GROW)
  THEN {KOut(k, 0, EPERM, <<>>)}
  ELSE IF k.off + Len(buf) > k.limit THEN {KOut(k, 0, EFBIG, <<>>)}
  ELSE {KOut([k EXCEPT !.off = @ + Len(buf), !.size = Max(@, k.off + Len(buf))],
             Len(buf), 0, <<>>)}

zFtruncate_growonly(k, fd, size) ==
  IF fd \notin k.open THEN KOut(k, 0, EBADF, <<>>)
  ELSE IF size < 0 THEN KOut(k, 0, EINVAL, <<>>)
  ELSE IF size > k.size /\ HasBit(k.seals, F_SEAL_GROW) THEN KOut(k, 0, EPERM, <<>>)
  ELSE IF size > k.limit THEN KOut(k, 0, EFBIG, <<>>)
  ELSE KOut([k EXCEPT !.size = Max(@, size)], 0, 0, <<>>)

zFtruncate_anyseal(k, fd, size) ==
  IF fd \notin k.open THEN KOut(k, 0, EBADF, <<>>)
  ELSE IF size < 0 THEN KOut(k, 0, EINVAL, <<>>)
  ELSE IF size # k.size
          /\ (HasBit(k.seals, F_SEAL_SHRINK) \/ HasBit(k.seals, F_SEAL_GROW))
       THEN KOut(k, 0, EPERM, <<>>)
  ELSE IF size > k.limit THEN KOut(k, 0, EFBIG, <<>>)
  ELSE KOut([k EXCEPT !.size = size], 0, 0, <<>>)

\* ftruncate(fd, size)
zFtruncate(k, fd, size) ==
  IF fd \notin k.open THEN KOut(k, 0, EBADF, <<>>)
  ELSE IF size < 0 THEN KOut(k, 0, EINVAL, <<>>)
  ELSE IF size < k.size /\ HasBit(k.seals, F_SEAL_SHRINK) THEN KOut(k, 0, EPERM, <<>>)
  ELSE IF size > k.size /\ HasBit(k.seals, F_SEAL_GROW) THEN KOut(k, 0, EPERM, <<>>)
  ELSE IF size > k.limit THEN KOut(k, 0, EFBIG, <<>>)
  ELSE KOut([k EXCEPT !.size = size], 0, 0, <<>>)

\* fstat(fd, &stat): r is stat.size
zFstat(k, fd) ==
  IF fd \notin k.open THEN KOut(k, 0, EBADF, <<>>)
  ELSE KOut(k, k.size, 0, <<>>)

\* pidfd_send_signal(pidfd, sig, NULL, 0)
zPidfdSendSignal(k, fd, sig) ==
  IF fd \notin k.open THEN KOut(k, 0, EBADF, <<>>)
  ELSE IF sig < 0 \/ sig > NSIG THEN KOut(k, 0, EINVAL, <<>>)
  ELSE IF ~k.alive THEN KOut(k, 0, ESRCH, <<>>)
  ELSE IF sig = 0 THEN KOut(k, 0, 0, <<>>)
  ELSE KOut([k EXCEPT !.sent = @ \cup {sig}], 0, 0, <<>>)

zRead(k, fd, len) ==
  IF fd \notin k.open THEN {KOut(k, 0, EBADF, <<>>)}
  ELSE CASE k.type = "eventfd" -> EventfdRead(k, len)
         [] k.type = "timerfd" -> TimerfdRead(k, len)
         [] k.type = "signalfd" -> SignalfdRead(k, len)
         [] k.type = "memfd" -> MemfdRead(k, len)
         [] OTHER -> {KOut(k, 0, EINVAL, <<>>)}

zWrite(k, fd, buf) ==
  IF fd \notin k.open THEN {KOut(k, 0, EBADF, <<>>)}
  ELSE CASE k.type = "eventfd" -> EventfdWrite(k, buf)
         [] k.type = "memfd" -> MemfdWrite(k, buf)
         [] OTHER -> {KOut(k, 0, EINVAL, <<>>)}

\* fcntl(2): the commands the package issues.  The result of F_GETFL and
\* F_GETFD is a flag word, modelled as the set of the flags in it.
FreeFds(k) == FdNums \ (k.open \cup k.other)

zFcntl_replace(k, fd, cmd, arg) ==
  IF fd \notin k.open THEN KOut(k, {}, EBADF, <<>>)
  ELSE CASE cmd = "F_ADD_SEALS" ->
              IF k.type # "memfd" \/ arg > AllSeals THEN KOut(k, 0, EINVAL, <<>>)
              ELSE IF HasBit(k.seals, F_SEAL_SEAL) THEN KOut(k, 0, EPERM, <<>>)
              ELSE KOut([k EXCEPT !.seals = arg], 0, 0, <<>>)
         [] cmd = "F_GET_SEALS" ->
              IF k.type # "memfd" THEN KOut(k, 0, EINVAL, <<>>)
              ELSE KOut(k, k.seals, 0, <<>>)
         [] OTHER -> KOut(k, {}, EINVAL, <<>>)

\* the status flags F_SETFL can change; it ignores the others in its argument
SetflFlags == {"O_APPEND", "O_NONBLOCK"}

zFcntl(k, fd, cmd, arg) ==
  IF fd \notin k.open THEN KOut(k, {}, EBADF, <<>>)
  ELSE CASE cmd = "F_GETFL" -> KOut(k, k.fl, 0, <<>>)
         [] cmd = "F_SETFL" ->
              KOut([k EXCEPT !.fl = (@ \ SetflFlags) \cup (arg \cap SetflFlags)],
                   {}, 0, <<>>)
         [] cmd = "F_GETFD" ->
              KOut(k, IF fd \in k.cloexec THEN {"FD_CLOEXEC"} ELSE {}, 0, <<>>)
         [] cmd = "F_SETFD" ->
              KOut([k EXCEPT !.cloexec = IF "FD_CLOEXEC" \in arg
                                         THEN @ \cup {fd} ELSE @ \ {fd}],
                   {}, 0, <<>>)
         [] cmd = "F_DUPFD_CLOEXEC" ->
              IF FreeFds(k) = {} THEN KOut(k, {}, EMFILE, <<>>)
              ELSE KOut([k EXCEPT !.open = @ \cup {MinOf(FreeFds(k))},
                                  !.cloexec = @ \cup {MinOf(FreeFds(k))}],
                        {MinOf(FreeFds(k))}, 0, <<>>)
         [] cmd = "F_ADD_SEALS" ->
              IF k.type # "memfd" \/ arg > AllSeals THEN KOut(k, 0, EINVAL, <<>>)
              ELSE IF HasBit(k.seals, F_SEAL_SEAL) THEN KOut(k, 0, EPERM, <<>>)
              ELSE KOut([k EXCEPT !.seals = BitOr(@, arg)], 0, 0, <<>>)
         [] cmd = "F_GET_SEALS" ->
              IF k.type # "memfd" THEN KOut(k, 0, EINVAL, <<>>)
              ELSE KOut(k, k.seals, 0, <<>>)

\* pidfd_open(pid, flags): the new descriptor refers to the process that
\* has the id now.  procs are the ids that name a process at that time.
zPidfdOpen(k, pid, nonblock) ==
  IF pid <= 0 THEN KOut(k, 0, EINVAL, <<>>)
  ELSE IF pid \notin k.procs THEN KOut(k, 0, ESRCH, <<>>)
  ELSE IF FreeFds(k) = {} THEN KOut(k, 0, EMFILE, <<>>)
  ELSE KOut([k EXCEPT !.open = @ \cup {MinOf(FreeFds(k))},
                      !.cloexec = @ \cup {MinOf(FreeFds(k))},
                      !.fl = @ \cup (IF nonblock THEN {"O_NONBLOCK"} ELSE {}),
                      !.pid = pid, !.alive = TRUE],
            MinOf(FreeFds(k)), 0, <<>>)

\* kill(pid, sig): the signal goes to whichever process has the id now,
\* the one the pidfd refers to or, once that one has exited and the id was
\* given out again, the new one
zKill(k, pid, sig) ==
  IF sig < 0 \/ sig > NSIG THEN KOut(k, 0, EINVAL, <<>>)
  ELSE IF pid # k.pid \/ ~(k.alive \/ k.reused) THEN KOut(k, 0, ESRCH, <<>>)
  ELSE IF sig = 0 THEN KOut(k, 0, 0, <<>>)
  ELSE IF k.alive THEN KOut([k EXCEPT !.sent = @ \cup {sig}], 0, 0, <<>>)
  ELSE KOut([k EXCEPT !.sentNew = @ \cup {sig}], 0, 0, <<>>)

\* pidfd_getfd(pidfd, targetfd, 0): r is the new descriptor, which refers
\* to a file of the target process
zPidfdGetfd(k, fd, targetfd) ==
  IF fd \notin k.open THEN KOut(k, 0, EBADF, <<>>)
  ELSE IF ~k.alive THEN KOut(k, 0, ESRCH, <<>>)
  ELSE IF ~k.ptrace THEN KOut(k, 0, EPERM, <<>>)
  ELSE IF targetfd \notin k.tfds THEN KOut(k, 0, EBADF, <<>>)
  ELSE IF FreeFds(k) = {} THEN KOut(k, 0, EMFILE, <<>>)
  ELSE KOut([k EXCEPT !.other = @ \cup {MinOf(FreeFds(k))}],
            MinOf(FreeFds(k)), 0, <<>>)

(***************************************************************************)
(* A goroutine's operation in progress, and the record of a step.          *)
(***************************************************************************)
NoRaw == -2   \* the operation has not loaded the slot
NoSys == -2   \* the step made no kernel call

Idle == [op |-> "idle", pc |-> "idle", arg |-> <<>>, raw |-> NoRaw,
         nsys |-> 0, after |-> FALSE, flags |-> {}]

NoEv == [done |-> FALSE, op |-> "none", arg |-> <<>>, raw |-> NoRaw,
         err |-> ErrNil, val |-> 0, val2 |-> 0, nsys |-> 0, after |-> FALSE,
         sysfd |-> NoSys, stale |-> FALSE, kerr |-> 0]

\* The operation holds a handle number and goes on to its kernel call.
Enter(p, o, a, label) ==
  /\ call' = [call EXCEPT ![p] = [op |-> o, pc |-> label, arg |-> a, raw |-> slot,
                                  nsys |-> 0, after |-> hist.closeReturned,
                                  flags |-> {}]]
  /\ ev' = NoEv

\* The operation returns to its caller without having made a kernel call.
Return(p, o, a, raw, e, v) ==
  /\ call' = call
  /\ ev' = [NoEv EXCEPT !.done = TRUE, !.op = o, !.arg = a, !.raw = raw,
                        !.err = e, !.val = v, !.after = hist.closeReturned]

\* The operation makes a kernel call on the number it holds and goes on.
Continue(p, label, flags) ==
  /\ call' = [call EXCEPT ![p].pc = label, ![p].nsys = @ + 1, ![p].flags = flags]
  /\ ev' = [NoEv EXCEPT !.op = call[p].op, !.arg = call[p].arg,
                        !.raw = call[p].raw, !.nsys = call[p].nsys + 1,
                        !.after = call[p].after, !.sysfd = call[p].raw,
                        !.stale = call[p].raw \in hist.released]

\* The operation makes a kernel call on the number it holds, which returns
\* the errno k, and returns.
Finish(p, k, e, v, v2) ==
  /\ call' = [call EXCEPT ![p] = Idle]
  /\ ev' = [done |-> TRUE, op |-> call[p].op, arg |-> call[p].arg,
            raw |-> call[p].raw, err |-> e, val |-> v, val2 |-> v2,
            nsys |-> call[p].nsys + 1, after |-> call[p].after,
            sysfd |-> call[p].raw, stale |-> call[p].raw \in hist.released,
            kerr |-> k]

\* The operation returns after a step that made no kernel call.
Done(p, e, v) ==
  /\ call' = [call EXCEPT ![p] = Idle]
  /\ ev' = [NoEv EXCEPT !.done = TRUE, !.op = call[p].op, !.arg = call[p].arg,
                        !.raw = call[p].raw, !.err = e, !.val = v,
                        !.nsys = call[p].nsys, !.after = call[p].after]

RawGuard_enter(p, o, a, label) == Enter(p, o, a, label)

RawGuard_param(p, o, a, label) ==
  IF slot < 0 THEN Return(p, o, a, slot, ErrInvalidParam, 0) ELSE Enter(p, o, a, label)

\* raw := fd.Raw(); if raw < 0 { return ErrClosed }
RawGuard(p, o, a, label) ==
  IF slot < 0 THEN Return(p, o, a, slot, ErrClosed, 0) ELSE Enter(p, o, a, label)

At(p, o, label) == call[p].op = o /\ call[p].pc = label

(***************************************************************************)
(* FD                                                                      *)
(***************************************************************************)
OrNil(e) == IF e # 0 THEN errFromErrno(e) ELSE ErrNil

\* Close, up to and including the atomic swap.  The Close of every
\* specialised handle is this one (return e.fd.Close()).
FD_Close_load(p) ==
  /\ call[p] = Idle
  /\ slot' = slot
  /\ hist' = [hist EXCEPT !.closedSeen = @ \/ slot < 0]
  /\ IF slot < 0
     THEN Return(p, "Close", <<>>, slot, ErrNil, 0)
     ELSE Enter(p, "Close", <<>>, "release")
  /\ UNCHANGED <<kind, obj, kern, others>>

FD_Close(p) ==
  /\ call[p] = Idle
  /\ slot' = -1
  /\ hist' = [hist EXCEPT !.closedSeen = @ \/ slot < 0]
  /\ IF slot < 0
     THEN Return(p, "Close", <<>>, slot, ErrNil, 0)
     ELSE Enter(p, "Close", <<>>, "release")
  /\ UNCHANGED <<kind, obj, kern, others>>

\* Close, from zcall.Close(uintptr(old)) to the return.
FD_Close_release_restore(p) ==
  /\ At(p, "Close", "release")
  /\ \E out \in zClose(kern, call[p].raw) :
       /\ kern' = out.k
       /\ hist' = [hist EXCEPT !.closeCalls = Append(@, call[p].raw),
                               !.released = @ \cup ({call[p].raw} \cap kern.open),
                               !.closeReturned = TRUE]
       /\ Finish(p, out.errno, OrNil(out.errno), 0, 0)
       /\ slot' = IF out.errno # 0 THEN call[p].raw ELSE slot
  /\ UNCHANGED <<kind, obj, others>>

FD_Close_release_nil(p) ==
  /\ At(p, "Close", "release")
  /\ \E out \in zClose(kern, call[p].raw) :
       /\ kern' = out.k
       /\ hist' = [hist EXCEPT !.closeCalls = Append(@, call[p].raw),
                               !.released = @ \cup ({call[p].raw} \cap kern.open),
                               !.closeReturned = TRUE]
       /\ Finish(p, out.errno, ErrNil, 0, 0)
  /\ UNCHANGED <<kind, obj, slot, others>>

FD_Close_release_again(p) ==
  /\ At(p, "Close", "release")
  /\ \E out \in zClose(kern, call[p].raw) :
       /\ kern' = out.k
       /\ hist' = [hist EXCEPT !.closeCalls = Append(@, call[p].raw),
                               !.released = @ \cup ({call[p].raw} \cap kern.open),
                               !.closeReturned = TRUE]
       /\ IF out.errno = EINTR
          THEN Continue(p, "release", {})
          ELSE Finish(p, out.errno, OrNil(out.errno), 0, 0)
  /\ UNCHANGED <<kind, obj, slot, others>>

FD_Close_release(p) ==
  /\ At(p, "Close", "release")
  /\ \E out \in zClose(kern, call[p].raw) :
       /\ kern' = out.k
       /\ hist' = [hist EXCEPT !.closeCalls = Append(@, call[p].raw),
                               !.released = @ \cup ({call[p].raw} \cap kern.open),
                               !.closeReturned = TRUE]
       /\ Finish(p, out.errno, OrNil(out.errno), 0, 0)
  /\ UNCHANGED <<kind, obj, slot, others>>

FD_Read_nocheck(p, len) ==
  /\ call[p] = Idle
  /\ RawGuard(p, "FD.Read", <<len>>, "read")
  /\ UNCHANGED <<kind, obj, slot, kern, hist, others>>

FD_Read(p, len) ==
  /\ call[p] = Idle
  /\ IF len = 0
     THEN Return(p, "FD.Read", <<len>>, NoRaw, ErrNil, 0)
     ELSE RawGuard(p, "FD.Read", <<len>>, "read")
  /\ UNCHANGED <<kind, obj, slot, kern, hist, others>>

FD_Read_sys(p) ==
  /\ At(p, "FD.Read", "read")
  /\ \E out \in zRead(kern, call[p].raw, call[p].arg[1]) :
       /\ kern' = out.k
       /\ Finish(p, out.errno, OrNil(out.errno), out.r, GetBytes(out.data))
  /\ UNCHANGED <<kind, obj, slot, hist, others>>

FD_Write(p, buf) ==
  /\ call[p] = Idle
  /\ IF Len(buf) = 0
     THEN Return(p, "FD.Write", buf, NoRaw, ErrNil, 0)
     ELSE RawGuard(p, "FD.Write", buf, "write")
  /\ UNCHANGED <<kind, obj, slot, kern, hist, others>>

FD_Write_sys(p) ==
  /\ At(p, "FD.Write", "write")
  /\ \E out \in zWrite(kern, call[p].raw, call[p].arg) :
       /\ kern' = out.k
       /\ Finish(p, out.errno, OrNil(out.errno), out.r, 0)
  /\ UNCHANGED <<kind, obj, slot, hist, others>>

BoolArg(b) == <<IF b THEN 1 ELSE 0>>

FD_SetNonblock(p, nonblock) ==
  /\ kind = "FD"
  /\ call[p] = Idle
  /\ RawGuard(p, "FD.SetNonblock", BoolArg(nonblock), "getfl")
  /\ UNCHANGED <<kind, obj, slot, kern, hist, others>>

FD_SetNonblock_getfl_fresh(p) ==
  /\ At(p, "FD.SetNonblock", "getfl")
  /\ LET out == zFcntl(kern, call[p].raw, "F_GETFL", {}) IN
       /\ kern' = out.k
       /\ IF out.errno # 0
          THEN Finish(p, out.errno, errFromErrno(out.errno), 0, 0)
          ELSE Continue(p, "setfl", IF call[p].arg[1] = 1 THEN {"O_NONBLOCK"} ELSE {})
  /\ UNCHANGED <<kind, obj, slot, hist, others>>

FD_SetNonblock_getfl(p) ==
  /\ At(p, "FD.SetNonblock", "getfl")
  /\ LET out == zFcntl(kern, call[p].raw, "F_GETFL", {}) IN
       /\ kern' = out.k
       /\ IF out.errno # 0
          THEN Finish(p, out.errno, errFromErrno(out.errno), 0, 0)
          ELSE Continue(p, "setfl", IF call[p].arg[1] = 1
                                    THEN out.r \cup {"O_NONBLOCK"}
                                    ELSE out.r \ {"O_NONBLOCK"})
  /\ UNCHANGED <<kind, obj, slot, hist, others>>

FD_SetNonblock_setfl(p) ==
  /\ At(p, "FD.SetNonblock", "setfl")
  /\ LET out == zFcntl(kern, call[p].raw, "F_SETFL", call[p].flags) IN
       /\ kern' = out.k
       /\ Finish(p, out.errno, OrNil(out.errno), 0, 0)
  /\ UNCHANGED <<kind, obj, slot, hist, others>>

FD_SetCloexec(p, cloexec) ==
  /\ kind = "FD"
  /\ call[p] = Idle
  /\ RawGuard(p, "FD.SetCloexec", BoolArg(cloexec), "getfd")
  /\ UNCHANGED <<kind, obj, slot, kern, hist, others>>

FD_SetCloexec_getfd(p) ==
  /\ At(p, "FD.SetCloexec", "getfd")
  /\ LET out == zFcntl(kern, call[p].raw, "F_GETFD", {}) IN
       /\ kern' = out.k
       /\ IF out.errno # 0
          THEN Finish(p, out.errno, errFromErrno(out.errno), 0, 0)
          ELSE Continue(p, "setfd", IF call[p].arg[1] = 1
                                    THEN out.r \cup {"FD_CLOEXEC"}
                                    ELSE out.r \ {"FD_CLOEXEC"})
  /\ UNCHANGED <<kind, obj, slot, hist, others>>

FD_SetCloexec_setfd(p) ==
  /\ At(p, "FD.SetCloexec", "setfd")
  /\ LET out == zFcntl(kern, call[p].raw, "F_SETFD", call[p].flags) IN
       /\ kern' = out.k
       /\ Finish(p, out.errno, OrNil(out.errno), 0, 0)
  /\ UNCHANGED <<kind, obj, slot, hist, others>>

FD_Dup(p) ==
  /\ kind = "FD"
  /\ call[p] = Idle
  /\ IF slot < 0
     THEN Return(p, "FD.Dup", <<>>, slot, ErrClosed, InvalidFD)
     ELSE Enter(p, "FD.Dup", <<>>, "dupfd")
  /\ UNCHANGED <<kind, obj, slot, kern, hist, others>>

FD_Dup_sys_store(p) ==
  /\ At(p, "FD.Dup", "dupfd")
  /\ LET out == zFcntl(kern, call[p].raw, "F_DUPFD_CLOEXEC", {}) IN
       /\ kern' = out.k
       /\ IF out.errno # 0
          THEN Finish(p, out.errno, errFromErrno(out.errno), InvalidFD, 0) /\ slot' = slot
          ELSE Finish(p, out.errno, ErrNil, MinOf(out.r), 0) /\ slot' = MinOf(out.r)
  /\ UNCHANGED <<kind, obj, hist, others>>

FD_Dup_sys_copy(p) ==
  /\ At(p, "FD.Dup", "dupfd")
  /\ kern' = kern
  /\ Finish(p, 0, ErrNil, call[p].raw, 0)
  /\ UNCHANGED <<kind, obj, slot, hist, others>>

FD_Dup_sys(p) ==
  /\ At(p, "FD.Dup", "dupfd")
  /\ LET out == zFcntl(kern, call[p].raw, "F_DUPFD_CLOEXEC", {}) IN
       /\ kern' = out.k
       /\ IF out.errno # 0
          THEN Finish(p, out.errno, errFromErrno(out.errno), InvalidFD, 0)
          ELSE Finish(p, out.errno, ErrNil, MinOf(out.r), 0)
  /\ UNCHANGED <<kind, obj, slot, hist, others>>

(***************************************************************************)
(* EventFD                                                                 *)
(***************************************************************************)
\* What Signal and Wait return for the byte count n and the errno e of their
\* kernel call: EAGAIN is ErrWouldBlock, any other errno is translated, and
\* a transfer of other than 8 bytes is ErrInvalidParam.
SignalResult_nocount(n, e) ==
  IF e # 0 THEN IF e = EAGAIN THEN ErrWouldBlock ELSE errFromErrno(e) ELSE ErrNil

SignalResult(n, e) ==
  IF e # 0
  THEN IF e = EAGAIN THEN ErrWouldBlock ELSE errFromErrno(e)
  ELSE IF n # eventfdSize THEN ErrInvalidParam ELSE ErrNil

WaitResult(n, e) ==
  IF e # 0
  THEN IF e = EAGAIN THEN ErrWouldBlock ELSE errFromErrno(e)
  ELSE IF n # eventfdSize THEN ErrInvalidParam ELSE ErrNil

\* What Read and Write return beside the byte count: the errno translated.
ReadResult(n, e) == IF e # 0 THEN errFromErrno(e) ELSE ErrNil

WriteResult(n, e) == IF e # 0 THEN errFromErrno(e) ELSE ErrNil

EventFD_Signal_drop(p, val) ==
  /\ kind = "EventFD"
  /\ call[p] = Idle
  /\ Return(p, "EventFD.Signal", <<val>>, NoRaw, ErrNil, 0)
  /\ UNCHANGED <<kind, obj, slot, kern, hist, others>>

EventFD_Signal_nozero(p, val) ==
  /\ kind = "EventFD"
  /\ call[p] = Idle
  /\ RawGuard(p, "EventFD.Signal", <<val>>, "write")
  /\ UNCHANGED <<kind, obj, slot, kern, hist, others>>

EventFD_Signal(p, val) ==
  /\ kind = "EventFD"
  /\ call[p] = Idle
  /\ IF val = 0
     THEN Return(p, "EventFD.Signal", <<val>>, NoRaw, ErrNil, 0)
     ELSE RawGuard(p, "EventFD.Signal", <<val>>, "write")
  /\ UNCHANGED <<kind, obj, slot, kern, hist, others>>

EventFD_Signal_sys(p) ==
  /\ At(p, "EventFD.Signal", "write")
  /\ \E out \in zWrite(kern, call[p].raw, PutUint64(call[p].arg[1])) :
       /\ kern' = out.k
       /\ Finish(p, out.errno, SignalResult(out.r, out.errno), 0, 0)
  /\ UNCHANGED <<kind, obj, slot, hist, others>>

EventFD_Wait(p) ==
  /\ kind = "EventFD"
  /\ call[p] = Idle
  /\ RawGuard(p, "EventFD.Wait", <<>>, "read")
  /\ UNCHANGED <<kind, obj, slot, kern, hist, others>>

EventFD_Wait_sys_retry(p) ==
  /\ At(p, "EventFD.Wait", "read")
  /\ \E out \in zRead(kern, call[p].raw, eventfdSize) :
       /\ kern' = out.k
       /\ IF out.errno # 0 /\ call[p].nsys = 0
          THEN Continue(p, "read", {})
          ELSE IF WaitResult(out.r, out.errno) # ErrNil
               THEN Finish(p, out.errno, WaitResult(out.r, out.errno), 0, 0)
               ELSE Finish(p, out.errno, ErrNil, Uint64(out.data), 0)
  /\ UNCHANGED <<kind, obj, slot, hist, others>>

EventFD_Wait_sys(p) ==
  /\ At(p, "EventFD.Wait", "read")
  /\ \E out \in zRead(kern, call[p].raw, eventfdSize) :
       /\ kern' = out.k
       /\ IF WaitResult(out.r, out.errno) # ErrNil
          THEN Finish(p, out.errno, WaitResult(out.r, out.errno), 0, 0)
          ELSE Finish(p, out.errno, ErrNil, Uint64(out.data), 0)
  /\ UNCHANGED <<kind, obj, slot, hist, others>>

EventFD_Read(p, len) ==
  /\ kind = "EventFD"
  /\ call[p] = Idle
  /\ IF len < eventfdSize
     THEN Return(p, "EventFD.Read", <<len>>, NoRaw, ErrInvalidParam, 0)
     ELSE RawGuard(p, "EventFD.Read", <<len>>, "read")
  /\ UNCHANGED <<kind, obj, slot, kern, hist, others>>

EventFD_Read_sys(p) ==
  /\ At(p, "EventFD.Read", "read")
  /\ \E out \in zRead(kern, call[p].raw, eventfdSize) :
       /\ kern' = out.k
       /\ Finish(p, out.errno, ReadResult(out.r, out.errno), out.r, GetBytes(out.data))
  /\ UNCHANGED <<kind, obj, slot, hist, others>>

EventFD_Write(p, buf) ==
  /\ kind = "EventFD"
  /\ call[p] = Idle
  /\ IF Len(buf) < eventfdSize
     THEN Return(p, "EventFD.Write", buf, NoRaw, ErrInvalidParam, 0)
     ELSE RawGuard(p, "EventFD.Write", buf, "write")
  /\ UNCHANGED <<kind, obj, slot, kern, hist, others>>

EventFD_Write_sys(p) ==
  /\ At(p, "EventFD.Write", "write")
  /\ \E out \in zWrite(kern, call[p].raw, SubSeq(call[p].arg, 1, eventfdSize)) :
       /\ kern' = out.k
       /\ Finish(p, out.errno, WriteResult(out.r, out.errno), out.r, 0)
  /\ UNCHANGED <<kind, obj, slot, hist, others>>

EventFD_Value_peek(p) ==
  /\ kind = "EventFD"
  /\ call[p] = Idle
  /\ IF slot < 0
     THEN Return(p, "EventFD.Value", <<>>, NoRaw, ErrInvalidParam, 0)
     ELSE Return(p, "EventFD.Value", <<>>, NoRaw, ErrNil, kern.counter)
  /\ UNCHANGED <<kind, obj, slot, kern, hist, others>>

\* Value: the peek that is not supported
EventFD_Value(p) ==
  /\ kind = "EventFD"
  /\ call[p] = Idle
  /\ Return(p, "EventFD.Value", <<>>, NoRaw, ErrInvalidParam, 0)
  /\ UNCHANGED <<kind, obj, slot, kern, hist, others>>

(***************************************************************************)
(* TimerFD                                                                 *)
(***************************************************************************)
\* itimerspec{interval: {interval / 1e9, interval % 1e9}, value: {...}}
Itimerspec(value, interval) ==
  [interval |-> [sec |-> GoDiv(interval, NsPerSec), nsec |-> GoMod(interval, NsPerSec)],
   value |-> [sec |-> GoDiv(value, NsPerSec), nsec |-> GoMod(value, NsPerSec)]]

TimerFD_Arm(p, initial, interval) ==
  /\ kind = "TimerFD"
  /\ call[p] = Idle
  /\ RawGuard(p, "TimerFD.Arm", <<initial, interval>>, "settime")
  /\ UNCHANGED <<kind, obj, slot, kern, hist, others>>

TimerFD_Arm_sys(p) ==
  /\ At(p, "TimerFD.Arm", "settime")
  /\ LET out == zTimerfdSettime(kern, call[p].raw, FALSE,
                                Itimerspec(call[p].arg[1], call[p].arg[2])) IN
       /\ kern' = out.k
       /\ Finish(p, out.errno, OrNil(out.errno), 0, 0)
  /\ UNCHANGED <<kind, obj, slot, hist, others>>

TimerFD_ArmAt(p, deadline, interval) ==
  /\ kind = "TimerFD"
  /\ call[p] = Idle
  /\ RawGuard(p, "TimerFD.ArmAt", <<deadline, interval>>, "settime")
  /\ UNCHANGED <<kind, obj, slot, kern, hist, others>>

TimerFD_ArmAt_sys(p) ==
  /\ At(p, "TimerFD.ArmAt", "settime")
  /\ LET out == zTimerfdSettime(kern, call[p].raw, TRUE,
                                Itimerspec(call[p].arg[1], call[p].arg[2])) IN
       /\ kern' = out.k
       /\ Finish(p, out.errno, OrNil(out.errno), 0, 0)
  /\ UNCHANGED <<kind, obj, slot, hist, others>>

TimerFD_Disarm_noop(p) ==
  /\ kind = "TimerFD"
  /\ call[p] = Idle
  /\ Return(p, "TimerFD.Arm", <<0, 0>>, NoRaw, ErrNil, 0)
  /\ UNCHANGED <<kind, obj, slot, kern, hist, others>>

\* func (t *TimerFD) Disarm() error { return t.Arm(0, 0) }
TimerFD_Disarm(p) == TimerFD_Arm(p, 0, 0)

TimerFD_Read(p) ==
  /\ kind = "TimerFD"
  /\ call[p] = Idle
  /\ RawGuard(p, "TimerFD.Read", <<>>, "read")
  /\ UNCHANGED <<kind, obj, slot, kern, hist, others>>

TimerFD_Read_sys(p) ==
  /\ At(p, "TimerFD.Read", "read")
  /\ \E out \in zRead(kern, call[p].raw, timerfdSize) :
       /\ kern' = out.k
       /\ IF out.errno # 0
          THEN Finish(p, out.errno, IF out.errno = EAGAIN THEN ErrWouldBlock
                         ELSE errFromErrno(out.errno), 0, 0)
          ELSE IF out.r # timerfdSize
               THEN Finish(p, out.errno, ErrInvalidParam, 0, 0)
               ELSE Finish(p, out.errno, ErrNil, Uint64(out.data), 0)
  /\ UNCHANGED <<kind, obj, slot, hist, others>>

TimerFD_ReadInto(p, len) ==
  /\ kind = "TimerFD"
  /\ call[p] = Idle
  /\ IF len < timerfdSize
     THEN Return(p, "TimerFD.ReadInto", <<len>>, NoRaw, ErrInvalidParam, 0)
     ELSE RawGuard(p, "TimerFD.ReadInto", <<len>>, "read")
  /\ UNCHANGED <<kind, obj, slot, kern, hist, others>>

TimerFD_ReadInto_sys(p) ==
  /\ At(p, "TimerFD.ReadInto", "read")
  /\ \E out \in zRead(kern, call[p].raw, timerfdSize) :
       /\ kern' = out.k
       /\ Finish(p, out.errno, OrNil(out.errno), out.r, GetBytes(out.data))
  /\ UNCHANGED <<kind, obj, slot, hist, others>>

TimerFD_GetTime(p) ==
  /\ kind = "TimerFD"
  /\ call[p] = Idle
  /\ RawGuard(p, "TimerFD.GetTime", <<>>, "gettime")
  /\ UNCHANGED <<kind, obj, slot, kern, hist, others>>

TimerFD_GetTime_sys(p) ==
  /\ At(p, "TimerFD.GetTime", "gettime")
  /\ LET out == zTimerfdGettime(kern, call[p].raw) IN
       /\ kern' = out.k
       /\ IF out.errno # 0
          THEN Finish(p, out.errno, errFromErrno(out.errno), 0, 0)
          ELSE Finish(p, out.errno, ErrNil, out.r.value.sec * NsPerSec + out.r.value.nsec,
                      out.r.interval.sec * NsPerSec + out.r.interval.nsec)
  /\ UNCHANGED <<kind, obj, slot, hist, others>>

\* the clock of the timer advances
Tick ==
  /\ kind = "TimerFD"
  /\ kern.now < MaxTime
  /\ kern' = [kern EXCEPT !.now = @ + 1]
  /\ ev' = NoEv
  /\ UNCHANGED <<kind, obj, slot, call, hist, others>>

(***************************************************************************)
(* SignalFD                                                                *)
(***************************************************************************)
\* what Read() returns as error when its read(2) returned n bytes and e
SigReadResult(n, e) ==
  IF e # 0 THEN IF e = EAGAIN THEN ErrWouldBlock ELSE errFromErrno(e)
  ELSE IF n # signalInfoSize THEN ErrInvalidParam ELSE ErrNil

SignalFD_Read(p) ==
  /\ kind = "SignalFD"
  /\ call[p] = Idle
  /\ RawGuard(p, "SignalFD.Read", <<>>, "read")
  /\ UNCHANGED <<kind, obj, slot, kern, hist, others>>

\* val is info.Signo of the record returned, 0 with a nil record
SignalFD_Read_sys(p) ==
  /\ At(p, "SignalFD.Read", "read")
  /\ \E out \in zRead(kern, call[p].raw, signalInfoSize) :
       /\ kern' = out.k
       /\ IF SigReadResult(out.r, out.errno) # ErrNil
          THEN Finish(p, out.errno, SigReadResult(out.r, out.errno), 0, 0)
          ELSE Finish(p, out.errno, ErrNil, out.data[1], 0)
  /\ UNCHANGED <<kind, obj, slot, hist, others>>

SignalFD_ReadInto_nolen(p, len) ==
  /\ kind = "SignalFD"
  /\ call[p] = Idle
  /\ RawGuard(p, "SignalFD.ReadInto", <<len>>, "read")
  /\ UNCHANGED <<kind, obj, slot, kern, hist, others>>

SignalFD_ReadInto(p, len) ==
  /\ kind = "SignalFD"
  /\ call[p] = Idle
  /\ IF len < signalInfoSize
     THEN Return(p, "SignalFD.ReadInto", <<len>>, NoRaw, ErrInvalidParam, 0)
     ELSE RawGuard(p, "SignalFD.ReadInto", <<len>>, "read")
  /\ UNCHANGED <<kind, obj, slot, kern, hist, others>>

SignalFD_ReadInto_sys(p) ==
  /\ At(p, "SignalFD.ReadInto", "read")
  /\ \E out \in zRead(kern, call[p].raw, signalInfoSize) :
       /\ kern' = out.k
       /\ Finish(p, out.errno, OrNil(out.errno), out.r, GetBytes(out.data))
  /\ UNCHANGED <<kind, obj, slot, hist, others>>

SignalFD_SetMask(p, mask) ==
  /\ kind = "SignalFD"
  /\ call[p] = Idle
  /\ RawGuard(p, "SignalFD.SetMask", <<mask>>, "signalfd4")
  /\ UNCHANGED <<kind, obj, slot, kern, hist, others>>

SignalFD_SetMask_sys_early(p) ==
  /\ At(p, "SignalFD.SetMask", "signalfd4")
  /\ LET out == zSignalfd4(kern, call[p].raw, call[p].arg[1]) IN
       /\ kern' = out.k
       /\ obj' = [obj EXCEPT !.mask = call[p].arg[1]]
       /\ Finish(p, out.errno, errFromErrno(out.errno), 0, 0)
  /\ UNCHANGED <<kind, slot, hist, others>>

SignalFD_SetMask_sys(p) ==
  /\ At(p, "SignalFD.SetMask", "signalfd4")
  /\ LET out == zSignalfd4(kern, call[p].raw, call[p].arg[1]) IN
       /\ kern' = out.k
       /\ IF out.errno # 0
          THEN Finish(p, out.errno, errFromErrno(out.errno), 0, 0)
          ELSE Continue(p, "store", {})
  /\ UNCHANGED <<kind, obj, slot, hist, others>>

\* s.mask = mask; return nil
SignalFD_SetMask_store(p) ==
  /\ At(p, "SignalFD.SetMask", "store")
  /\ obj' = [obj EXCEPT !.mask = call[p].arg[1]]
  /\ Done(p, ErrNil, 0)
  /\ UNCHANGED <<kind, slot, kern, hist, others>>

SignalFD_Mask(p) ==
  /\ kind = "SignalFD"
  /\ call[p] = Idle
  /\ Return(p, "SignalFD.Mask", <<>>, NoRaw, ErrNil, obj.mask)
  /\ UNCHANGED <<kind, obj, slot, kern, hist, others>>

\* a signal of the process becomes pending
RaiseSignal(sig) ==
  /\ kind = "SignalFD"
  /\ sig \notin kern.pending
  /\ kern' = [kern EXCEPT !.pending = @ \cup {sig}]
  /\ ev' = NoEv
  /\ UNCHANGED <<kind, obj, slot, call, hist, others>>

(***************************************************************************)
(* PidFD                                                                   *)
(***************************************************************************)
newPidFD_nocheck(p, pid, nonblock) ==
  /\ kind = "PidFD"
  /\ call[p] = Idle
  /\ Enter(p, "NewPidFD", <<pid, nonblock>>, "open")
  /\ UNCHANGED <<kind, obj, slot, kern, hist, others>>

\* NewPidFD(pid), NewPidFDBlocking(pid)
newPidFD(p, pid, nonblock) ==
  /\ kind = "PidFD"
  /\ call[p] = Idle
  /\ IF pid <= 0
     THEN Return(p, "NewPidFD", <<pid, nonblock>>, NoRaw, ErrInvalidParam, 0)
     ELSE Enter(p, "NewPidFD", <<pid, nonblock>>, "open")
  /\ UNCHANGED <<kind, obj, slot, kern, hist, others>>

\* fd, errno := zcall.PidfdOpen(..); return &PidFD{fd: FD(fd), pid: pid}, nil
newPidFD_sys(p) ==
  /\ At(p, "NewPidFD", "open")
  /\ LET out == zPidfdOpen(kern, call[p].arg[1], call[p].arg[2]) IN
       /\ kern' = out.k
       /\ IF out.errno # 0
          THEN /\ Finish(p, out.errno, errFromErrno(out.errno), 0, 0)
               /\ UNCHANGED <<obj, slot, script>>
          ELSE /\ Finish(p, out.errno, ErrNil, out.r, 0)
               /\ obj' = [obj EXCEPT !.pid = call[p].arg[1]]
               /\ slot' = out.r
               /\ script' = [made |-> TRUE, pid |-> call[p].arg[1]]
  /\ UNCHANGED <<kind, hist, errno, err>>

PidFD_SendSignal_sys_kill(p) ==
  /\ At(p, "PidFD.SendSignal", "send")
  /\ LET out == zKill(kern, obj.pid, call[p].arg[1]) IN
       /\ kern' = out.k
       /\ Finish(p, out.errno, OrNil(out.errno), 0, 0)
  /\ UNCHANGED <<kind, obj, slot, hist, others>>

PidFD_SendSignal(p, sig) ==
  /\ kind = "PidFD"
  /\ call[p] = Idle
  /\ RawGuard(p, "PidFD.SendSignal", <<sig>>, "send")
  /\ UNCHANGED <<kind, obj, slot, kern, hist, others>>

PidFD_SendSignal_sys(p) ==
  /\ At(p, "PidFD.SendSignal", "send")
  /\ LET out == zPidfdSendSignal(kern, call[p].raw, call[p].arg[1]) IN
       /\ kern' = out.k
       /\ Finish(p, out.errno, OrNil(out.errno), 0, 0)
  /\ UNCHANGED <<kind, obj, slot, hist, others>>

PidFD_GetFD(p, targetFD) ==
  /\ kind = "PidFD"
  /\ call[p] = Idle
  /\ IF slot < 0
     THEN Return(p, "PidFD.GetFD", <<targetFD>>, slot, ErrClosed, InvalidFD)
     ELSE Enter(p, "PidFD.GetFD", <<targetFD>>, "getfd")
  /\ UNCHANGED <<kind, obj, slot, kern, hist, others>>

PidFD_GetFD_sys(p) ==
  /\ At(p, "PidFD.GetFD", "getfd")
  /\ LET out == zPidfdGetfd(kern, call[p].raw, call[p].arg[1]) IN
       /\ kern' = out.k
       /\ IF out.errno # 0
          THEN Finish(p, out.errno, errFromErrno(out.errno), InvalidFD, 0)
          ELSE Finish(p, out.errno, ErrNil, out.r, 0)
  /\ UNCHANGED <<kind, obj, slot, hist, others>>

PidFD_PID_live(p) ==
  /\ kind = "PidFD"
  /\ call[p] = Idle
  /\ Return(p, "PidFD.PID", <<>>, NoRaw, ErrNil, IF kern.alive THEN obj.pid ELSE 0)
  /\ UNCHANGED <<kind, obj, slot, kern, hist, others>>

PidFD_PID(p) ==
  /\ kind = "PidFD"
  /\ call[p] = Idle
  /\ Return(p, "PidFD.PID", <<>>, NoRaw, ErrNil, obj.pid)
  /\ UNCHANGED <<kind, obj, slot, kern, hist, others>>

\* the kernel gives the id of the exited process to a new process
PidReuse ==
  /\ kind = "PidFD"
  /\ kern.pid # 0 /\ ~kern.alive /\ ~kern.reused
  /\ kern' = [kern EXCEPT !.reused = TRUE]
  /\ ev' = NoEv
  /\ UNCHANGED <<kind, obj, slot, call, hist, others>>

\* the process the pidfd refers to exits
ProcExit ==
  /\ kind = "PidFD"
  /\ kern.alive
  /\ kern' = [kern EXCEPT !.alive = FALSE]
  /\ ev' = NoEv
  /\ UNCHANGED <<kind, obj, slot, call, hist, others>>

(***************************************************************************)
(* MemFD                                                                   *)
(***************************************************************************)
\* func (m *MemFD) Read(p []byte) (int, error) { return m.fd.Read(p) }
MemFD_Read(p, len) == kind = "MemFD" /\ FD_Read(p, len)

\* func (m *MemFD) Write(p []byte) (int, error) { return m.fd.Write(p) }
MemFD_Write(p, buf) == kind = "MemFD" /\ FD_Write(p, buf)

MemFD_Truncate(p, size) ==
  /\ kind = "MemFD"
  /\ call[p] = Idle
  /\ RawGuard(p, "MemFD.Truncate", <<size>>, "ftruncate")
  /\ UNCHANGED <<kind, obj, slot, kern, hist, others>>

MemFD_Truncate_sys(p) ==
  /\ At(p, "MemFD.Truncate", "ftruncate")
  /\ LET out == zFtruncate(kern, call[p].raw, call[p].arg[1]) IN
       /\ kern' = out.k
       /\ Finish(p, out.errno, OrNil(out.errno), 0, 0)
  /\ UNCHANGED <<kind, obj, slot, hist, others>>

MemFD_Size(p) ==
  /\ kind = "MemFD"
  /\ call[p] = Idle
  /\ RawGuard(p, "MemFD.Size", <<>>, "fstat")
  /\ UNCHANGED <<kind, obj, slot, kern, hist, others>>

MemFD_Size_sys(p) ==
  /\ At(p, "MemFD.Size", "fstat")
  /\ LET out == zFstat(kern, call[p].raw) IN
       /\ kern' = out.k
       /\ IF out.errno # 0
          THEN Finish(p, out.errno, errFromErrno(out.errno), 0, 0)
          ELSE Finish(p, out.errno, ErrNil, out.r, 0)
  /\ UNCHANGED <<kind, obj, slot, hist, others>>

MemFD_Seal(p, seals) ==
  /\ kind = "MemFD"
  /\ call[p] = Idle
  /\ RawGuard(p, "MemFD.Seal", <<seals>>, "addseals")
  /\ UNCHANGED <<kind, obj, slot, kern, hist, others>>

MemFD_Seal_sys_quiet(p) ==
  /\ At(p, "MemFD.Seal", "addseals")
  /\ LET out == zFcntl(kern, call[p].raw, "F_ADD_SEALS", call[p].arg[1]) IN
       /\ kern' = out.k
       /\ Finish(p, out.errno, IF out.errno = EPERM THEN ErrNil ELSE OrNil(out.errno),
                 0, 0)
  /\ UNCHANGED <<kind, obj, slot, hist, others>>

MemFD_Seal_sys(p) ==
  /\ At(p, "MemFD.Seal", "addseals")
  /\ LET out == zFcntl(kern, call[p].raw, "F_ADD_SEALS", call[p].arg[1]) IN
       /\ kern' = out.k
       /\ Finish(p, out.errno, OrNil(out.errno), 0, 0)
  /\ UNCHANGED <<kind, obj, slot, hist, others>>

MemFD_Seals(p) ==
  /\ kind = "MemFD"
  /\ call[p] = Idle
  /\ RawGuard(p, "MemFD.Seals", <<>>, "getseals")
  /\ UNCHANGED <<kind, obj, slot, kern, hist, others>>

MemFD_Seals_sys(p) ==
  /\ At(p, "MemFD.Seals", "getseals")
  /\ LET out == zFcntl(kern, call[p].raw, "F_GET_SEALS", 0) IN
       /\ kern' = out.k
       /\ IF out.errno # 0
          THEN Finish(p, out.errno, errFromErrno(out.errno), 0, 0)
          ELSE Finish(p, out.errno, ErrNil, out.r, 0)
  /\ UNCHANGED <<kind, obj, slot, hist, others>>

(***************************************************************************)
(* The errno translator on its own                                         *)
(***************************************************************************)
Translate ==
  /\ err = SemErr("unset")
  /\ err' = errFromErrno(errno)
  /\ UNCHANGED <<kind, obj, slot, call, kern, hist, ev, errno, script>>

(***************************************************************************)
(* Initial states                                                          *)
(***************************************************************************)
\* the arguments the operations are called with
ReadLens == {0, 4, eventfdSize}
WriteBufs == {<<>>, PutBytes(1, 4), PutUint64(1), PutUint64(WordMax)}
SignalVals == 0..WordMax
EventReadLens == {eventfdSize - 1, eventfdSize, eventfdSize + 1}
EventWriteBufs == {PutBytes(1, eventfdSize - 1), PutUint64(1), PutUint64(2) \o <<7>>}
TimerVals == -1..MaxNs
TimerReadLens == {timerfdSize - 1, timerfdSize}
SigSets == 0..(2^MaxSig - 1) \cup {2^(SIGKILL - 1) + 1}
SignalReadLens == {signalInfoSize - 1, signalInfoSize}
SendSigs == -1..MaxSig
TargetFds == {0, 1}
MemReadLens == 0..MaxSize
MemWriteBufs == {<<>>, <<7>>}
TruncateSizes == -1..(MaxSize + 1)
SealArgs == {F_SEAL_SEAL, F_SEAL_SHRINK, F_SEAL_GROW, F_SEAL_WRITE, AllSeals + 1}

Kinds == {"FD", "EventFD", "TimerFD", "SignalFD", "PidFD", "MemFD"}

\* what every constructor leaves in the descriptor table: the number h,
\* close-on-exec, referring to a new object opened read-write
NewKern(type, h, fl) ==
  [type |-> type, open |-> {h}, other |-> {}, cloexec |-> {h}, fl |-> {"O_RDWR"} \cup fl]

NoFields == [mask |-> 0, pid |-> 0]

\* the kernel right after eventfd2(initval, flags) returned the number h
EventfdKern(h, initval, sem) ==
  NewKern("eventfd", h, {"O_NONBLOCK"}) @@ [counter |-> initval, sem |-> sem]

\* NewFD(h): the caller vouches for h.  It wraps an eventfd's number, as
\* the package's tests do; h = -1 is InvalidFD.
InitFD ==
  /\ kind = "FD"
  /\ obj = NoFields
  /\ slot \in FdNums \cup {InvalidFD}
  /\ kern = IF slot < 0
            THEN [EventfdKern(0, 0, FALSE) EXCEPT !.open = {}, !.cloexec = {}]
            ELSE EventfdKern(slot, 0, FALSE)

\* NewEventFD(initval), NewEventFDSemaphore(initval)
InitEventFD ==
  /\ kind = "EventFD"
  /\ obj = NoFields
  /\ slot \in FdNums
  /\ \E initval \in 0..MaxInit, sem \in BOOLEAN : kern = EventfdKern(slot, initval, sem)

\* NewTimerFD(), NewTimerFDRealtime(), NewTimerFDBoottime(): disarmed
InitTimerFD ==
  /\ kind = "TimerFD"
  /\ obj = NoFields
  /\ slot \in FdNums
  /\ kern = NewKern("timerfd", slot, {"O_NONBLOCK"})
              @@ [now |-> 0, armed |-> FALSE, due |-> 0, tint |-> 0]

\* NewSignalFD(mask)
InitSignalFD ==
  /\ kind = "SignalFD"
  /\ slot \in FdNums
  /\ \E mask \in SigSets :
       /\ obj = [NoFields EXCEPT !.mask = mask]
       /\ kern = NewKern("signalfd", slot, {"O_NONBLOCK"})
                   @@ [sigmask |-> SigSetMembers(mask) \ {SIGKILL, SIGSTOP},
                       pending |-> {}]

\* NewPidFD(pid), NewPidFDBlocking(pid) with pid > 0, of a process that exists
InitPidFD ==
  /\ kind = "PidFD"
  /\ slot \in FdNums
  /\ \E pid \in 1..MaxPid, nonblock \in BOOLEAN, ptrace \in BOOLEAN :
       /\ obj = [NoFields EXCEPT !.pid = pid]
       /\ kern = NewKern("pidfd", slot, IF nonblock THEN {"O_NONBLOCK"} ELSE {})
                   @@ [alive |-> TRUE, sent |-> {}, ptrace |-> ptrace, tfds |-> {0}]

\* NewMemFD(name): no sealing, which the kernel records as F_SEAL_SEAL;
\* NewMemFDSealed(name): sealing allowed, no seal yet
InitMemFD ==
  /\ kind = "MemFD"
  /\ obj = NoFields
  /\ slot \in FdNums
  /\ \E sealing \in BOOLEAN :
       kern = NewKern("memfd", slot, {})
                @@ [size |-> 0, off |-> 0, limit |-> MaxSize,
                    seals |-> MemfdSeals(sealing)]

InitHandle ==
  /\ InitFD \/ InitEventFD \/ InitTimerFD \/ InitSignalFD \/ InitPidFD \/ InitMemFD
  /\ call = [p \in Procs |-> Idle]
  /\ hist = [h0 |-> slot, closedSeen |-> FALSE, closeCalls |-> <<>>, released |-> {},
             closeReturned |-> FALSE]
  /\ ev = NoEv

NoScript == [pc |-> 0, d1 |-> 0, d2 |-> 0, initval |-> 0, sem |-> FALSE, res |-> <<>>]

Init ==
  /\ InitHandle
  /\ errno = 0
  /\ err = SemErr("unset")
  /\ script = NoScript

Next ==
  \/ \E p \in Procs : FD_Close(p)
  \/ \E p \in Procs : FD_Close_release(p)
  \/ \E p \in {User}, len \in ReadLens : kind = "FD" /\ FD_Read(p, len)
  \/ \E p \in {User} : FD_Read_sys(p)
  \/ \E p \in {User}, buf \in WriteBufs : kind = "FD" /\ FD_Write(p, buf)
  \/ \E p \in {User} : FD_Write_sys(p)
  \/ \E p \in {User}, b \in BOOLEAN : FD_SetNonblock(p, b)
  \/ \E p \in {User} : FD_SetNonblock_getfl(p)
  \/ \E p \in {User} : FD_SetNonblock_setfl(p)
  \/ \E p \in {User}, b \in BOOLEAN : FD_SetCloexec(p, b)
  \/ \E p \in {User} : FD_SetCloexec_getfd(p)
  \/ \E p \in {User} : FD_SetCloexec_setfd(p)
  \/ \E p \in {User} : FD_Dup(p)
  \/ \E p \in {User} : FD_Dup_sys(p)
  \/ \E p \in {User}, val \in SignalVals : EventFD_Signal(p, val)
  \/ \E p \in {User} : EventFD_Signal_sys(p)
  \/ \E p \in {User} : EventFD_Wait(p)
  \/ \E p \in {User} : EventFD_Wait_sys(p)
  \/ \E p \in {User}, len \in EventReadLens : EventFD_Read(p, len)
  \/ \E p \in {User} : EventFD_Read_sys(p)
  \/ \E p \in {User}, buf \in EventWriteBufs : EventFD_Write(p, buf)
  \/ \E p \in {User} : EventFD_Write_sys(p)
  \/ \E p \in {User} : EventFD_Value(p)
  \/ \E p \in {User}, initial \in TimerVals, interval \in TimerVals :
       TimerFD_Arm(p, initial, interval)
  \/ \E p \in {User} : TimerFD_Arm_sys(p)
  \/ \E p \in {User}, deadline \in TimerVals, interval \in TimerVals :
       TimerFD_ArmAt(p, deadline, interval)
  \/ \E p \in {User} : TimerFD_ArmAt_sys(p)
  \/ \E p \in {User} : TimerFD_Disarm(p)
  \/ \E p \in {User} : TimerFD_Read(p)
  \/ \E p \in {User} : TimerFD_Read_sys(p)
  \/ \E p \in {User}, len \in TimerReadLens : TimerFD_ReadInto(p, len)
  \/ \E p \in {User} : TimerFD_ReadInto_sys(p)
  \/ \E p \in {User} : TimerFD_GetTime(p)
  \/ \E p \in {User} : TimerFD_GetTime_sys(p)
  \/ Tick
  \/ \E p \in {User} : SignalFD_Read(p)
  \/ \E p \in {User} : SignalFD_Read_sys(p)
  \/ \E p \in {User}, len \in SignalReadLens : SignalFD_ReadInto(p, len)
  \/ \E p \in {User} : SignalFD_ReadInto_sys(p)
  \/ \E p \in {User}, mask \in SigSets : SignalFD_SetMask(p, mask)
  \/ \E p \in {User} : SignalFD_SetMask_sys(p)
  \/ \E p \in {User} : SignalFD_SetMask_store(p)
  \/ \E p \in {User} : SignalFD_Mask(p)
  \/ \E sig \in 1..MaxSig : RaiseSignal(sig)
  \/ \E p \in {User}, sig \in SendSigs : PidFD_SendSignal(p, sig)
  \/ \E p \in {User} : PidFD_SendSignal_sys(p)
  \/ \E p \in {User}, targetFD \in TargetFds : PidFD_GetFD(p, targetFD)
  \/ \E p \in {User} : PidFD_GetFD_sys(p)
  \/ \E p \in {User} : PidFD_PID(p)
  \/ ProcExit
  \/ \E p \in {User}, len \in MemReadLens : MemFD_Read(p, len)
  \/ \E p \in {User}, buf \in MemWriteBufs : MemFD_Write(p, buf)
  \/ \E p \in {User}, size \in TruncateSizes : MemFD_Truncate(p, size)
  \/ \E p \in {User} : MemFD_Truncate_sys(p)
  \/ \E p \in {User} : MemFD_Size(p)
  \/ \E p \in {User} : MemFD_Size_sys(p)
  \/ \E p \in {User}, seals \in SealArgs : MemFD_Seal(p, seals)
  \/ \E p \in {User} : MemFD_Seal_sys(p)
  \/ \E p \in {User} : MemFD_Seals(p)
  \/ \E p \in {User} : MemFD_Seals_sys(p)

Spec == Init /\ [][Next]_vars

InitErr ==
  /\ InitHandle
  /\ errno \in 0..MaxErrno
  /\ err = SemErr("unset")
  /\ script = NoScript

NextErr == Translate

SpecErr == InitErr /\ [][NextErr]_vars

(***************************************************************************)
(* One goroutine alone on an EventFD: Signal(d1); Signal(d2); Wait();      *)
(* Wait(), each result collected before the next call.                     *)
(***************************************************************************)
ScriptLen == 4

InitSeq ==
  /\ InitEventFD
  /\ call = [p \in Procs |-> Idle]
  /\ hist = [h0 |-> slot, closedSeen |-> FALSE, closeCalls |-> <<>>, released |-> {},
             closeReturned |-> FALSE]
  /\ ev = NoEv
  /\ errno = 0
  /\ err = SemErr("unset")
  /\ \E d1 \in SignalVals, d2 \in SignalVals :
       script = [pc |-> 1, d1 |-> d1, d2 |-> d2, initval |-> kern.counter,
                 sem |-> kern.sem, res |-> <<>>]

\* the caller takes the values the call returned
Collect ==
  /\ script.pc \in 1..ScriptLen
  /\ ev.done
  /\ script' = [script EXCEPT !.pc = @ + 1,
                              !.res = Append(@, [err |-> ev.err, val |-> ev.val])]
  /\ ev' = NoEv
  /\ UNCHANGED <<kind, obj, slot, call, kern, hist, errno, err>>

NextSeq ==
  \/ script.pc = 1 /\ ~ev.done /\ EventFD_Signal(User, script.d1)
  \/ script.pc = 2 /\ ~ev.done /\ EventFD_Signal(User, script.d2)
  \/ EventFD_Signal_sys(User)
  \/ script.pc \in {3, 4} /\ ~ev.done /\ EventFD_Wait(User)
  \/ EventFD_Wait_sys(User)
  \/ Collect

SpecSeq == InitSeq /\ [][NextSeq]_vars

(***************************************************************************)
(* One goroutine alone on an EventFD made with the value initval: Wait()   *)
(* after Wait(), each result collected before the next call.               *)
(***************************************************************************)
InitSem ==
  /\ kind = "EventFD"
  /\ obj = NoFields
  /\ slot \in FdNums
  /\ \E initval \in 0..Min(CounterMax, ScriptLen - 1), sem \in BOOLEAN :
       /\ kern = EventfdKern(slot, initval, sem)
       /\ script = [NoScript EXCEPT !.pc = 1, !.initval = initval, !.sem = sem]
  /\ call = [p \in Procs |-> Idle]
  /\ hist = [h0 |-> slot, closedSeen |-> FALSE, closeCalls |-> <<>>, released |-> {},
             closeReturned |-> FALSE]
  /\ ev = NoEv
  /\ errno = 0
  /\ err = SemErr("unset")

NextSem ==
  \/ script.pc \in 1..ScriptLen /\ ~ev.done /\ EventFD_Wait(User)
  \/ EventFD_Wait_sys(User)
  \/ Collect

SpecSem == InitSem /\ [][NextSem]_vars

(***************************************************************************)
(* The result of each counter operation as a function of what its kernel   *)
(* call returned: a byte count n and an errno.                             *)
(***************************************************************************)
XferOps == {"EventFD.Signal", "EventFD.Wait", "EventFD.Read", "EventFD.Write"}
XferErrnos == {0, EINTR, EBADF, EAGAIN, EINVAL}

InitXfer ==
  /\ InitEventFD
  /\ call = [p \in Procs |-> Idle]
  /\ hist = [h0 |-> slot, closedSeen |-> FALSE, closeCalls |-> <<>>, released |-> {},
             closeReturned |-> FALSE]
  /\ ev = NoEv
  /\ errno \in XferErrnos
  /\ err = SemErr("unset")
  /\ \E o \in XferOps, n \in 0..eventfdSize : script = [op |-> o, n |-> n]

Transfer ==
  /\ err = SemErr("unset")
  /\ err' = CASE script.op = "EventFD.Signal" -> SignalResult(script.n, errno)
              [] script.op = "EventFD.Wait" -> WaitResult(script.n, errno)
              [] script.op = "EventFD.Read" -> ReadResult(script.n, errno)
              [] script.op = "EventFD.Write" -> WriteResult(script.n, errno)
  /\ UNCHANGED <<kind, obj, slot, call, kern, hist, ev, errno, script>>

NextXfer == Transfer

SpecXfer == InitXfer /\ [][NextXfer]_vars

(***************************************************************************)
(* One goroutine alone on a TimerFD while the clock advances a millisecond *)
(* at a time.  The caller keeps a note of its last successful Arm or       *)
(* ArmAt: the call (by), its arguments (arg), the time of it (at), the     *)
(* time at which the arming it replaced would have first expired (cut,     *)
(* 0 if there was none to come) and the sum of the counts its Reads have   *)
(* returned since (read).                                                  *)
(***************************************************************************)
TimerArgs == {-1, 0, PeriodTicks * TickNs}

InitTimer ==
  /\ InitTimerFD
  /\ slot = 0
  /\ call = [p \in Procs |-> Idle]
  /\ hist = [h0 |-> slot, closedSeen |-> FALSE, closeCalls |-> <<>>, released |-> {},
             closeReturned |-> FALSE]
  /\ ev = NoEv
  /\ errno = 0
  /\ err = SemErr("unset")
  /\ script = [by |-> "none", arg |-> <<0, 0>>, at |-> 0, cut |-> 0, read |-> 0]

\* the time of the first expiration of the arming the caller has noted
NotedArmed == script.by # "none" /\ script.arg[1] # 0
NotedFirst == IF script.by = "TimerFD.Arm" THEN script.at + script.arg[1]
              ELSE script.arg[1]

\* the caller takes the values the call returned
CollectTimer ==
  /\ kind = "TimerFD"
  /\ ev.done
  /\ script' =
       IF ev.op \in {"TimerFD.Arm", "TimerFD.ArmAt"} /\ ev.err = ErrNil
       THEN [by |-> ev.op, arg |-> ev.arg, at |-> kern.now,
             cut |-> IF NotedArmed /\ kern.now < NotedFirst THEN NotedFirst ELSE 0,
             read |-> 0]
       ELSE IF ev.op = "TimerFD.Read" /\ ev.err = ErrNil
            THEN [script EXCEPT !.read = @ + ev.val]
            ELSE script
  /\ ev' = NoEv
  /\ UNCHANGED <<kind, obj, slot, call, kern, hist, errno, err>>

\* time.Sleep: the clock of the timer advances a millisecond
Elapse ==
  /\ kind = "TimerFD"
  /\ ~ev.done
  /\ kern.now < MaxTicks * TickNs
  /\ kern' = [kern EXCEPT !.now = @ + TickNs]
  /\ ev' = NoEv
  /\ UNCHANGED <<kind, obj, slot, call, hist, others>>

NextTimer ==
  \/ \E initial \in TimerArgs, interval \in TimerArgs :
       ~ev.done /\ TimerFD_Arm(User, initial, interval)
  \/ TimerFD_Arm_sys(User)
  \/ \E deadline \in TimerArgs, interval \in TimerArgs :
       ~ev.done /\ TimerFD_ArmAt(User, deadline, interval)
  \/ TimerFD_ArmAt_sys(User)
  \/ ~ev.done /\ TimerFD_Disarm(User)
  \/ ~ev.done /\ TimerFD_Read(User)
  \/ TimerFD_Read_sys(User)
  \/ ~ev.done /\ TimerFD_GetTime(User)
  \/ TimerFD_GetTime_sys(User)
  \/ Elapse
  \/ CollectTimer

SpecTimer == InitTimer /\ [][NextTimer]_vars

(***************************************************************************)
(* SigSet is a uint64 of which bit N stands for signal N+1.  The word is    *)
(* kept here as the set of its set bits, 0..63, which is the same           *)
(* information.                                                            *)
(***************************************************************************)
SigSet_Add_noguard(s, sig) == s \cup {sig - 1}

\* func (s *SigSet) Add(sig int): *s |= 1 << (sig - 1)
SigSet_Add(s, sig) == IF sig < 1 \/ sig > NSIG THEN s ELSE s \cup {sig - 1}

\* func (s *SigSet) Del(sig int): *s &^= 1 << (sig - 1)
SigSet_Del(s, sig) == IF sig < 1 \/ sig > NSIG THEN s ELSE s \ {sig - 1}

\* func (s SigSet) Has(sig int) bool: s&(1<<(sig-1)) != 0
SigSet_Has(s, sig) == IF sig < 1 \/ sig > NSIG THEN FALSE ELSE (sig - 1) \in s

\* the bits a set starts with and the signal numbers given to the methods
SigBits == {0, 1, NSIG - 2, NSIG - 1}
SigArgs == {-1, 0, 1, 2, NSIG - 1, NSIG, NSIG + 1}

InitSig ==
  /\ InitSignalFD
  /\ slot = 0
  /\ call = [p \in Procs |-> Idle]
  /\ hist = [h0 |-> slot, closedSeen |-> FALSE, closeCalls |-> <<>>, released |-> {},
             closeReturned |-> FALSE]
  /\ ev = NoEv
  /\ errno = 0
  /\ err = SemErr("unset")
  /\ \E s \in SUBSET SigBits :
       script = [op |-> "none", sig |-> 0, before |-> s, after |-> s, has |-> FALSE]

\* one method of SigSet is called on the set
ApplySig ==
  /\ \E o \in {"Add", "Del", "Has"}, sig \in SigArgs :
       script' = [op |-> o, sig |-> sig, before |-> script.after,
                  after |-> CASE o = "Add" -> SigSet_Add(script.after, sig)
                              [] o = "Del" -> SigSet_Del(script.after, sig)
                              [] o = "Has" -> script.after,
                  has |-> o = "Has" /\ SigSet_Has(script.after, sig)]
  /\ UNCHANGED <<kind, obj, slot, call, kern, hist, ev, errno, err>>

SpecSig == InitSig /\ [][ApplySig]_vars

(***************************************************************************)
(* An open SignalFD that is never closed, used by two goroutines: both     *)
(* call SetMask and Mask, one of them calls Read, and signals of the       *)
(* process become pending.                                                 *)
(***************************************************************************)
MaskUsers == {User, User + 1}
MaskSigs == 1..(MaxSig + 1)
MaskArgs == 0..(2^(MaxSig + 1) - 1)

InitMask ==
  /\ InitSignalFD
  /\ slot = 0
  /\ obj.mask \in MaskArgs
  /\ call = [p \in Procs |-> Idle]
  /\ hist = [h0 |-> slot, closedSeen |-> FALSE, closeCalls |-> <<>>, released |-> {},
             closeReturned |-> FALSE]
  /\ ev = NoEv
  /\ errno = 0
  /\ err = SemErr("unset")
  /\ script = NoScript

NextMask ==
  \/ \E p \in MaskUsers, mask \in MaskArgs : SignalFD_SetMask(p, mask)
  \/ \E p \in MaskUsers : SignalFD_SetMask_sys(p)
  \/ \E p \in MaskUsers : SignalFD_SetMask_store(p)
  \/ \E p \in MaskUsers : SignalFD_Mask(p)
  \/ SignalFD_Read(User)
  \/ SignalFD_Read_sys(User)
  \/ \E sig \in MaskSigs : RaiseSignal(sig)

SpecMask == InitMask /\ [][NextMask]_vars

(***************************************************************************)
(* A process handle from its constructor on: one goroutine constructs the  *)
(* handle and then calls its methods, while the process exits and the      *)
(* kernel gives its id to a new process.  The script notes the handle the  *)
(* constructor returned and the id it was given.                           *)
(***************************************************************************)
PidArgs == -1..(MaxPid + 1)

InitPid ==
  /\ kind = "PidFD"
  /\ obj = NoFields
  /\ slot = InvalidFD
  /\ \E ptrace \in BOOLEAN :
       kern = [type |-> "pidfd", open |-> {}, other |-> {}, cloexec |-> {},
               fl |-> {"O_RDWR"}, procs |-> 1..MaxPid, pid |-> 0, alive |-> FALSE,
               reused |-> FALSE, sent |-> {}, sentNew |-> {}, ptrace |-> ptrace,
               tfds |-> {0}]
  /\ call = [p \in Procs |-> Idle]
  /\ hist = [h0 |-> slot, closedSeen |-> FALSE, closeCalls |-> <<>>, released |-> {},
             closeReturned |-> FALSE]
  /\ ev = NoEv
  /\ errno = 0
  /\ err = SemErr("unset")
  /\ script = [made |-> FALSE, pid |-> 0]

NextPid ==
  \/ \E pid \in PidArgs, nonblock \in BOOLEAN :
       ~script.made /\ newPidFD(User, pid, nonblock)
  \/ newPidFD_sys(User)
  \/ \E sig \in SendSigs : script.made /\ PidFD_SendSignal(User, sig)
  \/ PidFD_SendSignal_sys(User)
  \/ \E targetFD \in TargetFds : script.made /\ PidFD_GetFD(User, targetFD)
  \/ PidFD_GetFD_sys(User)
  \/ script.made /\ PidFD_PID(User)
  \/ script.made /\ FD_Close(User)
  \/ FD_Close_release(User)
  \/ ProcExit
  \/ PidReuse

SpecPid == InitPid /\ [][NextPid]_vars

(***************************************************************************)
(* An anonymous memory handle used by one goroutine: NewMemFD or           *)
(* NewMemFDSealed, then Truncate, Size, Seal, Seals, Write, Read and Close  *)
(* in any order.  The file may grow one unit beyond MaxSize, so that a      *)
(* file of one unit can both shrink and grow.                              *)
(***************************************************************************)
MemSizes == -1..(MaxSize + 2)
MemSeals == {0, F_SEAL_SEAL, F_SEAL_SHRINK, F_SEAL_GROW, F_SEAL_WRITE,
             F_SEAL_SHRINK + F_SEAL_GROW, AllSeals + 1}

InitMem ==
  /\ kind = "MemFD"
  /\ obj = NoFields
  /\ slot = 0
  /\ \E sealing \in BOOLEAN :
       /\ script = [sealing |-> sealing]
       /\ kern = NewKern("memfd", slot, {})
                     @@ [size |-> 0, off |-> 0, limit |-> MaxSize + 1,
                         seals |-> MemfdSeals(sealing)]
  /\ call = [p \in Procs |-> Idle]
  /\ hist = [h0 |-> slot, closedSeen |-> FALSE, closeCalls |-> <<>>, released |-> {},
             closeReturned |-> FALSE]
  /\ ev = NoEv
  /\ errno = 0
  /\ err = SemErr("unset")

NextMem ==
  \/ \E size \in MemSizes : MemFD_Truncate(User, size)
  \/ MemFD_Truncate_sys(User)
  \/ MemFD_Size(User)
  \/ MemFD_Size_sys(User)
  \/ \E seals \in MemSeals : MemFD_Seal(User, seals)
  \/ MemFD_Seal_sys(User)
  \/ MemFD_Seals(User)
  \/ MemFD_Seals_sys(User)
  \/ \E buf \in MemWriteBufs : MemFD_Write(User, buf)
  \/ FD_Write_sys(User)
  \/ \E len \in MemReadLens : MemFD_Read(User, len)
  \/ FD_Read_sys(User)
  \/ FD_Close(User)
  \/ FD_Close_release(User)

SpecMem == InitMem /\ [][NextMem]_vars

(***************************************************************************)
(* An FD and its duplicate, used by one goroutine.  The variable slot is   *)
(* the slot of the FD the goroutine is calling a method of, and the script *)
(* holds the slot of the other one: the goroutine keeps the FD that Dup    *)
(* returned (TakeDup) and goes from one FD to the other (Switch).  It      *)
(* writes through the original and reads through both.                    *)
(***************************************************************************)
DupPending == ev.done /\ ev.op = "FD.Dup" /\ ev.err = ErrNil

InitDup ==
  /\ InitFD
  /\ slot = 0
  /\ call = [p \in Procs |-> Idle]
  /\ hist = [h0 |-> slot, closedSeen |-> FALSE, closeCalls |-> <<>>, released |-> {},
             closeReturned |-> FALSE]
  /\ ev = NoEv
  /\ errno = 0
  /\ err = SemErr("unset")
  /\ script = [made |-> FALSE, other |-> InvalidFD, cur |-> "original"]

\* newFD, err := fd.Dup()
TakeDup ==
  /\ DupPending
  /\ script' = [script EXCEPT !.made = TRUE, !.other = ev.val]
  /\ ev' = NoEv
  /\ UNCHANGED <<kind, obj, slot, call, kern, hist, errno, err>>

\* the goroutine's next call is on the other FD
Switch ==
  /\ script.made /\ call[User] = Idle
  /\ slot' = script.other
  /\ script' = [script EXCEPT !.other = slot,
                              !.cur = IF @ = "original" THEN "duplicate" ELSE "original"]
  /\ ev' = NoEv
  /\ UNCHANGED <<kind, obj, call, kern, hist, errno, err>>

NextDup ==
  \/ ~script.made /\ ~DupPending /\ FD_Dup(User)
  \/ FD_Dup_sys(User)
  \/ TakeDup
  \/ Switch
  \/ \E buf \in WriteBufs :
       ~DupPending /\ script.cur = "original" /\ FD_Write(User, buf)
  \/ FD_Write_sys(User)
  \/ \E len \in ReadLens : ~DupPending /\ FD_Read(User, len)
  \/ FD_Read_sys(User)
  \/ ~DupPending /\ FD_Close(User)
  \/ FD_Close_release(User)

SpecDup == InitDup /\ [][NextDup]_vars

(***************************************************************************)
(* The flags of an FD, changed by one goroutine.  NewFD wraps a descriptor *)
(* the caller opened, with whatever status and descriptor flags it has; a  *)
(* Dup adds a second descriptor of the same open file.                     *)
(***************************************************************************)
InitFlags ==
  /\ kind = "FD"
  /\ obj = NoFields
  /\ slot = 0
  /\ \E fl \in SUBSET SetflFlags, cx \in SUBSET {slot} :
       kern = [EventfdKern(slot, 0, FALSE) EXCEPT !.fl = {"O_RDWR"} \cup fl,
                                                   !.cloexec = cx]
  /\ call = [p \in Procs |-> Idle]
  /\ hist = [h0 |-> slot, closedSeen |-> FALSE, closeCalls |-> <<>>, released |-> {},
             closeReturned |-> FALSE]
  /\ ev = NoEv
  /\ errno = 0
  /\ err = SemErr("unset")
  /\ script = NoScript

NextFlags ==
  \/ \E b \in BOOLEAN : FD_SetNonblock(User, b)
  \/ FD_SetNonblock_getfl(User)
  \/ FD_SetNonblock_setfl(User)
  \/ \E b \in BOOLEAN : FD_SetCloexec(User, b)
  \/ FD_SetCloexec_getfd(User)
  \/ FD_SetCloexec_setfd(User)
  \/ FD_Dup(User)
  \/ FD_Dup_sys(User)
  \/ FD_Close(User)
  \/ FD_Close_release(User)

SpecFlags == InitFlags /\ [][NextFlags]_vars

(***************************************************************************)
(* One goroutine on a handle of any constructor but the memory file's,     *)
(* with the flag changes the package offers.  A kernel call that has no    *)
(* outcome is a thread asleep in the kernel.  The goroutine's thread is    *)
(* scheduled: an operation that can take its next step takes it.           *)
(***************************************************************************)
InitBlock ==
  /\ Init
  /\ kind # "MemFD"
  /\ slot = 0

\* the next step of the operation in progress
OpStep ==
  \/ FD_Close_release(User)
  \/ FD_Read_sys(User)
  \/ FD_Write_sys(User)
  \/ FD_SetNonblock_getfl(User)
  \/ FD_SetNonblock_setfl(User)
  \/ EventFD_Signal_sys(User)
  \/ EventFD_Wait_sys(User)
  \/ TimerFD_Arm_sys(User)
  \/ TimerFD_Read_sys(User)
  \/ SignalFD_Read_sys(User)
  \/ PidFD_SendSignal_sys(User)

NextBlock ==
  \/ OpStep
  \/ FD_Close(User)
  \/ \E len \in ReadLens : kind = "FD" /\ FD_Read(User, len)
  \/ \E buf \in WriteBufs : kind = "FD" /\ FD_Write(User, buf)
  \/ \E b \in BOOLEAN : FD_SetNonblock(User, b)
  \/ \E val \in SignalVals : EventFD_Signal(User, val)
  \/ EventFD_Wait(User)
  \/ \E initial \in TimerVals, interval \in TimerVals : TimerFD_Arm(User, initial, interval)
  \/ TimerFD_Read(User)
  \/ Tick
  \/ SignalFD_Read(User)
  \/ \E sig \in 1..MaxSig : RaiseSignal(sig)
  \/ \E sig \in SendSigs : PidFD_SendSignal(User, sig)
  \/ ProcExit

SpecBlock == InitBlock /\ [][NextBlock]_vars /\ WF_vars(OpStep)

(***************************************************************************)
(* Close() called any number of times by every goroutine, on a handle of   *)
(* any constructor.  The callers keep a note of a Close() that returned an *)
(* error of the release.                                                   *)
(***************************************************************************)
CloseFailed == ev.done /\ ev.op = "Close" /\ ev.kerr # 0

InitClose ==
  /\ InitHandle
  /\ errno = 0
  /\ err = SemErr("unset")
  /\ script = [failed |-> FALSE, err |-> ErrNil]

\* if err := fd.Close(); err != nil { ... }
NoteFailure ==
  /\ CloseFailed
  /\ script' = [failed |-> TRUE, err |-> ev.err]
  /\ ev' = NoEv
  /\ UNCHANGED <<kind, obj, slot, call, kern, hist, errno, err>>

NextClose ==
  \/ \E p \in Procs : ~CloseFailed /\ FD_Close(p)
  \/ \E p \in Procs : FD_Close_release(p)
  \/ NoteFailure

SpecClose == InitClose /\ [][NextClose]_vars

(***************************************************************************)
(* Every goroutine calls Signal and Wait on one standard-mode counter, in  *)
(* any interleaving of their kernel calls.  The callers keep the sums: the *)
(* initial value (init), the deltas of the Signals that returned nil       *)
(* (sent) and the values the Waits returned (got).  Signals are called     *)
(* until the deltas sent add up to MaxSum.                                 *)
(***************************************************************************)
Returned(o) == ev.done /\ ev.op = o /\ ev.err = ErrNil
ToTally == Returned("EventFD.Signal") \/ Returned("EventFD.Wait")

InitTally ==
  /\ kind = "EventFD"
  /\ obj = NoFields
  /\ slot = 0
  /\ \E initval \in 0..CounterMax :
       /\ kern = EventfdKern(slot, initval, FALSE)
       /\ script = [init |-> initval, sent |-> 0, got |-> 0]
  /\ call = [p \in Procs |-> Idle]
  /\ hist = [h0 |-> slot, closedSeen |-> FALSE, closeCalls |-> <<>>, released |-> {},
             closeReturned |-> FALSE]
  /\ ev = NoEv
  /\ errno = 0
  /\ err = SemErr("unset")

\* the caller adds what its call returned to the sums
Tally ==
  /\ ToTally
  /\ script' = IF ev.op = "EventFD.Signal"
               THEN [script EXCEPT !.sent = @ + ev.arg[1]]
               ELSE [script EXCEPT !.got = @ + ev.val]
  /\ ev' = NoEv
  /\ UNCHANGED <<kind, obj, slot, call, kern, hist, errno, err>>

NextTally ==
  \/ \E p \in Procs, val \in SignalVals :
       ~ToTally /\ script.sent < MaxSum /\ EventFD_Signal(p, val)
  \/ \E p \in Procs : ~ToTally /\ EventFD_Signal_sys(p)
  \/ \E p \in Procs : ~ToTally /\ EventFD_Wait(p)
  \/ \E p \in Procs : ~ToTally /\ EventFD_Wait_sys(p)
  \/ Tally

SpecTally == InitTally /\ [][NextTally]_vars

(***************************************************************************)
(* Properties                                                              *)
(***************************************************************************)
\* the state of the program: the handle, the goroutines and the kernel
prog == <<kind, obj, slot, call, kern>>

\* the I/O and control operations by the name their return is recorded under
\* (Disarm is Arm(0, 0); MemFD.Read and MemFD.Write are FD.Read and FD.Write)
IoOps ==
  {"FD.Read", "FD.Write", "FD.SetNonblock", "FD.SetCloexec", "FD.Dup",
   "EventFD.Signal", "EventFD.Wait", "EventFD.Read", "EventFD.Write",
   "TimerFD.Arm", "TimerFD.ArmAt", "TimerFD.Read", "TimerFD.ReadInto",
   "TimerFD.GetTime", "SignalFD.Read", "SignalFD.ReadInto", "SignalFD.SetMask",
   "PidFD.SendSignal", "PidFD.GetFD",
   "MemFD.Truncate", "MemFD.Size", "MemFD.Seal", "MemFD.Seals"}

\* C1: with any number of concurrent Close() calls on an FD whose slot
\* started at a handle number h >= 0, zcall.Close is called at most once
\* and only with h, and once the slot is -1 and no Close is still between
\* its swap and its release, it has been called exactly once.
C1_CloseOnce ==
  /\ Len(hist.closeCalls) <= 1
  /\ \A i \in 1..Len(hist.closeCalls) : hist.closeCalls[i] = hist.h0
  /\ (hist.h0 >= 0 /\ slot = InvalidFD /\ \A p \in Procs : call[p].op # "Close")
       => Len(hist.closeCalls) = 1

\* C1 witness: h has been released once, and a Close() that found the
\* slot already swapped has returned as well.
C1_Witness ==
  /\ hist.h0 >= 0
  /\ hist.closedSeen
  /\ hist.closeCalls = <<hist.h0>>
  /\ \A p \in Procs : call[p] = Idle

\* C2: once the slot holds -1 it holds -1 in every later state.
C2_ClosedForever == [][slot = InvalidFD => slot' = InvalidFD]_vars

\* C2 witness: the slot is -1 and a Dup that had loaded the number before
\* the swap has returned a new descriptor; the slot stays -1.
C2_Witness ==
  /\ slot = InvalidFD
  /\ ev.done /\ ev.op = "FD.Dup" /\ ev.err = ErrNil /\ ev.val >= 0

\* C3 as stated: the Close() that finds the handle open returns success.
C3_FirstCloseSucceeds ==
  (ev.done /\ ev.op = "Close" /\ ev.raw >= 0) => ev.err = ErrNil

\* C3 amended: the Close() that finds the handle open makes exactly one
\* kernel call, the release of the number it swapped out, and returns
\* success if the release succeeded and the translation of its errno if
\* not; a Close() that finds the slot at -1 returns success, makes no
\* kernel call and leaves the handle, the goroutines and the kernel as
\* they were.
C3_CloseResult ==
  [][(ev'.done /\ ev'.op = "Close") =>
       IF ev'.raw >= 0
       THEN /\ ev'.nsys = 1
            /\ ev'.sysfd = ev'.raw
            /\ ev'.sysfd = hist.h0
            /\ (ev'.err = ErrNil) <=> (ev'.kerr = 0)
            /\ ev'.kerr = EINTR => ev'.err = ErrInterrupted
            /\ ev'.kerr = EIO => ev'.err = RawErrno(EIO)
       ELSE /\ ev'.err = ErrNil
            /\ ev'.nsys = 0
            /\ UNCHANGED prog]_vars

\* C3 witness: the first Close() has returned an error of the release and
\* a later Close() returns nil.
C3_Witness ==
  /\ ev.done /\ ev.op = "Close" /\ ev.raw = InvalidFD /\ ev.err = ErrNil
  /\ hist.closeReturned
  /\ Len(hist.closeCalls) = 1

\* C3 witness of the failing release: the first Close() returns EINTR's
\* translation.
C3_FailedClose ==
  ev.done /\ ev.op = "Close" /\ ev.raw >= 0 /\ ev.err = ErrInterrupted

\* the operation returned on its argument alone, before it read the slot
ArgChecked(o, a) ==
  \/ o \in {"FD.Read", "EventFD.Signal"} /\ a[1] = 0
  \/ o = "FD.Write" /\ Len(a) = 0
  \/ o \in {"EventFD.Read", "TimerFD.ReadInto"} /\ a[1] < eventfdSize
  \/ o = "EventFD.Write" /\ Len(a) < eventfdSize
  \/ o = "SignalFD.ReadInto" /\ a[1] < signalInfoSize

\* C4 as stated: an I/O or control operation called after the first
\* Close() returned fails with Closed whatever its argument.
C4_AllClosed ==
  (ev.done /\ ev.after /\ ev.op \in IoOps) => ev.err = ErrClosed

\* C4 amended: an I/O or control operation called after the first Close()
\* returned fails with Closed, except where the argument is examined
\* before the slot: FD.Read, FD.Write, MemFD.Read and MemFD.Write with an
\* empty buffer return (0, nil), Signal(0) returns nil, and EventFD.Read,
\* EventFD.Write and TimerFD.ReadInto with fewer than 8 bytes and
\* SignalFD.ReadInto with fewer than 128 bytes fail with ErrInvalidParam.
C4_ClosedAfterClose ==
  (ev.done /\ ev.after /\ ev.op \in IoOps) =>
    /\ ev.nsys = 0
    /\ IF ~ArgChecked(ev.op, ev.arg) THEN ev.err = ErrClosed
       ELSE IF ev.op \in {"FD.Read", "FD.Write", "EventFD.Signal"}
            THEN ev.err = ErrNil /\ ev.val = 0
            ELSE ev.err = ErrInvalidParam

\* C4 witness: Seal called after the first Close() returned fails with
\* Closed.
C4_Witness ==
  ev.done /\ ev.after /\ ev.op = "MemFD.Seal" /\ ev.err = ErrClosed

\* C4 witness of the exception: Signal(0) called after the first Close()
\* returned gives nil.
C4_SignalZeroAfterClose ==
  ev.done /\ ev.after /\ ev.op = "EventFD.Signal" /\ ev.err = ErrNil

\* C5: no I/O or control operation makes a kernel call on a handle number
\* that Close has already released.
C5_NoStaleCall ==
  ~(ev.op \in IoOps /\ ev.sysfd # NoSys /\ ev.stale)

\* C6: a step changes the slot only if it is the swap of a Close().
C6_OnlyCloseWrites ==
  [][slot' # slot => (\E p \in Procs : FD_Close(p))]_vars

\* C6 witness: a Seal has succeeded and the slot still holds the number
\* the handle was made with.
C6_Witness ==
  /\ ev.done /\ ev.op = "MemFD.Seal" /\ ev.err = ErrNil
  /\ slot = hist.h0 /\ slot >= 0

\* C7 as stated: whatever operation observes the slot at -1 returns
\* Closed.
C7_AnyOpClosed ==
  (ev.done /\ ev.raw = InvalidFD) => ev.err = ErrClosed

\* C7 amended: an operation other than Close() that observes the slot at
\* -1 returns Closed and has made no kernel call; Close() observing -1
\* returns success, also with no kernel call.
C7_ClosedNoSyscall ==
  (ev.done /\ ev.raw = InvalidFD) =>
    /\ ev.nsys = 0
    /\ ev.sysfd = NoSys
    /\ ev.err = IF ev.op = "Close" THEN ErrNil ELSE ErrClosed

\* C7 witness: Truncate has observed -1 and returned Closed.
C7_Witness ==
  /\ ev.done /\ ev.op = "MemFD.Truncate" /\ ev.raw = InvalidFD
  /\ ev.err = ErrClosed

\* C8: FD.Read and FD.Write with a zero-length buffer return (0, nil),
\* make no kernel call and change nothing of the handle, the goroutines
\* or the kernel.
C8_EmptyBuffer ==
  [][(/\ ev'.done
      /\ \/ ev'.op = "FD.Read" /\ ev'.arg[1] = 0
         \/ ev'.op = "FD.Write" /\ Len(ev'.arg) = 0)
     => /\ ev'.err = ErrNil
        /\ ev'.val = 0
        /\ ev'.nsys = 0
        /\ ev'.sysfd = NoSys
        /\ UNCHANGED prog]_vars

\* C8 witness: FD.Read with an empty buffer has returned on an open
\* handle whose eventfd counter is nonzero.
C8_Witness ==
  /\ ev.done /\ ev.op = "FD.Read" /\ ev.arg = <<0>>
  /\ kind = "FD" /\ slot >= 0 /\ kern.counter > 0

\* the table of the translator
ErrnoTable(e) ==
  IF e = 0 THEN ErrNil
  ELSE IF e = EAGAIN THEN ErrWouldBlock
  ELSE IF e = EBADF THEN ErrClosed
  ELSE IF e = EINVAL THEN ErrInvalidParam
  ELSE IF e = EINTR THEN ErrInterrupted
  ELSE IF e = ENOMEM THEN ErrNoMemory
  ELSE IF e \in {EACCES, EPERM} THEN ErrPermission
  ELSE [kind |-> "Errno", code |-> e]

\* C9: errFromErrno gives, for every raw code, the entry of the fixed
\* table: 0 -> nil, EAGAIN -> WouldBlock, EBADF -> Closed, EINVAL ->
\* InvalidParam, EINTR -> Interrupted, ENOMEM -> NoMemory, EACCES and
\* EPERM -> Permission, any other code -> the code itself.
C9_ErrnoTable ==
  err # SemErr("unset") => err = ErrnoTable(errno)

\* C9 witness: EPERM has been translated to ErrPermission.
C9_Witness ==
  errno = EPERM /\ err = ErrPermission

\* the script has run to its end on a standard-mode counter made with 0
ScriptDone ==
  script.pc = ScriptLen + 1 /\ script.initval = 0 /\ ~script.sem

C12_SignalZero ==
  [][(ev'.done /\ ev'.op = "EventFD.Signal" /\ ev'.arg = <<0>>)
       => (ev'.err = ErrNil /\ ev'.nsys = 0 /\ prog' = prog)]_vars

\* Signal(0) has returned on an open counter that is full
C12_Witness ==
  /\ ev.done /\ ev.op = "EventFD.Signal" /\ ev.arg = <<0>>
  /\ slot >= 0 /\ slot \in kern.open
  /\ kern.counter = CounterMax

\* the step is the kernel write of a Signal(delta) on a counter that is open
\* in the kernel
SignalWrites(delta) ==
  /\ ev'.done /\ ev'.op = "EventFD.Signal" /\ ev'.arg = <<delta>>
  /\ ev'.nsys = 1 /\ ev'.sysfd \in kern.open

SemWaits == IF script.sem THEN 1..Len(script.res) ELSE {}

\* C11: on a semaphore-mode counter created with the value n and not
\* signalled afterwards, each of the first n Wait() calls returns 1 with
\* success and the (n+1)-th, like every one after it, returns WouldBlock.
C11_SemaphoreWaits ==
  \A i \in SemWaits :
    script.res[i] = IF i <= script.initval
                    THEN [err |-> ErrNil, val |-> 1]
                    ELSE [err |-> ErrWouldBlock, val |-> 0]

\* C11 witness: a semaphore made with 2 has answered its third Wait.
C11_Witness ==
  script.sem /\ script.initval = 2 /\ Len(script.res) = 3 /\ kern.counter = 0

\* a kernel transfer of the operation o completed without error but with a
\* byte count other than 8, and the operation has computed its result
ShortTransfer(o) ==
  /\ script.op = o /\ errno = 0 /\ script.n # eventfdSize
  /\ err # SemErr("unset")

ReadReturned == ev.done /\ ev.op = "TimerFD.Read"

\* the number of expirations, up to the time t, of the arming the caller
\* has noted
Expirations(t) ==
  IF ~NotedArmed \/ t < NotedFirst THEN 0
  ELSE IF script.arg[2] = 0 THEN 1
  ELSE (t - NotedFirst) \div script.arg[2] + 1

\* C16: after Arm(initial, 0) with initial > 0, a Read() at any time before
\* initial has elapsed returns WouldBlock, the first Read() once initial has
\* elapsed returns exactly 1, and every Read() after that one returns
\* WouldBlock.
C16_OneShot ==
  (ReadReturned /\ script.by = "TimerFD.Arm" /\ script.arg[1] > 0 /\ script.arg[2] = 0)
    => IF kern.now < script.at + script.arg[1] \/ script.read # 0
       THEN ev.err = ErrWouldBlock /\ ev.val = 0
       ELSE ev.err = ErrNil /\ ev.val = 1

\* C16 witness: the Read() after the one that returned 1 has returned
\* WouldBlock.
C16_Witness ==
  /\ ReadReturned /\ script.by = "TimerFD.Arm" /\ script.arg[2] = 0
  /\ script.read = 1 /\ ev.err = ErrWouldBlock

\* C17: a Read() that succeeds returns the number of expirations since the
\* last successful Read (since the arming, if there was none), which is at
\* least 1; with no expiration since then, or a disarmed timer, Read()
\* returns WouldBlock.  Armed with initial = interval = 5ms, the first Read()
\* 22ms or more after it returns at least 3.
C17_ExpirationCount ==
  ReadReturned =>
    /\ IF Expirations(kern.now) = script.read
       THEN ev.err = ErrWouldBlock /\ ev.val = 0
       ELSE ev.err = ErrNil /\ ev.val = Expirations(kern.now) - script.read
    /\ ev.err = ErrNil => ev.val >= 1
    /\ (/\ script.by = "TimerFD.Arm"
        /\ script.arg = <<PeriodTicks * TickNs, PeriodTicks * TickNs>>
        /\ script.read = 0
        /\ kern.now - script.at >= SleepTicks * TickNs)
         => ev.err = ErrNil /\ ev.val >= 3

\* C17 witness: armed with initial = interval = 5ms, the first Read(), 22ms
\* later, has returned 4.
C17_Witness ==
  /\ ReadReturned /\ script.by = "TimerFD.Arm"
  /\ script.arg = <<PeriodTicks * TickNs, PeriodTicks * TickNs>>
  /\ script.read = 0 /\ kern.now - script.at = SleepTicks * TickNs
  /\ ev.val = 4

\* C18: a step is the call Disarm() exactly when it is the call Arm(0, 0), so
\* both give the same result and the same next state from every state; and
\* after a successful Disarm() every Read() returns WouldBlock until the
\* timer is armed again.
C18_DisarmIsArmZero ==
  [][/\ TimerFD_Disarm(User) <=> TimerFD_Arm(User, 0, 0)
     /\ (ev'.done /\ ev'.op = "TimerFD.Read"
         /\ script'.by = "TimerFD.Arm" /\ script'.arg = <<0, 0>>)
          => ev'.err = ErrWouldBlock]_vars

\* C18 witness: a timer was disarmed before its first expiration, and a
\* Read() at or after the time it would have expired returned WouldBlock.
C18_Witness ==
  /\ ReadReturned /\ script.by = "TimerFD.Arm" /\ script.arg = <<0, 0>>
  /\ script.cut > 0 /\ kern.now >= script.cut
  /\ ev.err = ErrWouldBlock

\* the step is the kernel call of an Arm(0, interval)
ArmZero == ev'.done /\ ev'.op = "TimerFD.Arm" /\ ev'.nsys = 1 /\ ev'.arg[1] = 0

\* the caller's note says the timer was last set by Arm(0, interval), and
\* no later Arm or ArmAt is waiting to be noted
NotedArmZero ==
  /\ script.by = "TimerFD.Arm" /\ script.arg[1] = 0
  /\ ~(ev.done /\ ev.op \in {"TimerFD.Arm", "TimerFD.ArmAt"})

\* C19 as stated: Arm(0, interval) leaves the timer Disarmed for every
\* value of interval.
C19_AnyInterval ==
  [][ArmZero => (ev'.err = ErrNil /\ ~kern'.armed)]_vars

\* C19: Arm(0, interval) with interval >= 0 succeeds and leaves the timer
\* Disarmed, and from then on the timer never expires (no Read() returns a
\* count) until it is armed again; with interval < 0 it fails with
\* InvalidParameter and leaves the timer as it was.
C19_ArmZeroDisarms ==
  [][/\ ArmZero =>
          IF ev'.arg[2] >= 0
          THEN ev'.err = ErrNil /\ ~kern'.armed /\ TimerCount(kern') = 0
          ELSE ev'.err = ErrInvalidParam /\ kern' = kern
     /\ NotedArmZero' =>
          /\ ~kern'.armed /\ TimerCount(kern') = 0
          /\ (ev'.done /\ ev'.op = "TimerFD.Read") => ev'.err = ErrWouldBlock]_vars

\* C19 witness: Arm(0, interval) with interval > 0 replaced an arming that
\* had not expired, and a Read() after both the old expiration time and one
\* more interval returned WouldBlock.
C19_Witness ==
  /\ ReadReturned /\ NotedArmZero /\ script.arg[2] > 0
  /\ script.cut > 0 /\ kern.now >= script.cut + script.arg[2]
  /\ ev.err = ErrWouldBlock

\* the step is a successful Arm or ArmAt with a zero first argument
\* (Disarm() is Arm(0, 0))
SetZero ==
  /\ ev'.done /\ ev'.op \in {"TimerFD.Arm", "TimerFD.ArmAt"}
  /\ ev'.err = ErrNil /\ ev'.arg[1] = 0

\* C20 as stated: a new timer is Disarmed, and an armed timer becomes
\* Disarmed only by a Disarm() or a re-arm with a zero initial value.
C20_OnlyExplicitDisarm ==
  /\ ~kern.armed
  /\ [][(kern.armed /\ ~kern'.armed) => SetZero]_vars

\* C20: a new timer is Disarmed.  A periodic timer becomes Disarmed only by
\* a Disarm() or a re-arm with a zero initial value and neither expiration
\* nor Read() disarms it; a one-shot timer becomes Disarmed by those and
\* also by the Read() that returns its single expiration.  The passing of
\* time alone disarms nothing.
C20_DisarmedOnlyBy ==
  /\ ~kern.armed
  /\ [][(kern.armed /\ ~kern'.armed) =>
          \/ SetZero
          \/ /\ ev'.done /\ ev'.op = "TimerFD.Read" /\ ev'.err = ErrNil
             /\ kern.tint = 0 /\ ev'.val = 1]_vars

\* C20 witness: Disarm() has returned on a periodic timer that had expired
\* and been read, which until then was still armed.
C20_Witness ==
  /\ ev.done /\ ev.op = "TimerFD.Arm" /\ ev.arg = <<0, 0>> /\ ev.err = ErrNil
  /\ NotedArmed /\ script.arg[2] > 0 /\ script.read > 0
  /\ ~kern.armed

\* the step is the kernel call of a GetTime()
GetTimeStep == ev'.done /\ ev'.op = "TimerFD.GetTime" /\ ev'.nsys = 1

\* C21 as stated: GetTime() on a timer that is Disarmed returns (0, 0).
C21_DisarmedZero ==
  [][(GetTimeStep /\ ~kern.armed) => (ev'.val = 0 /\ ev'.val2 = 0)]_vars

\* C21: GetTime() succeeds and changes nothing in the kernel: neither whether
\* the timer is armed nor the number of expirations a Read() would return.
\* On a Disarmed timer it returns a remaining time of 0 and the interval of
\* the last successful Arm or ArmAt, which is 0 for a new timer and after
\* Disarm() but the given interval after Arm(0, interval).  On a timer armed
\* by Arm(initial, interval) that has not expired it returns a remaining
\* time in (0, initial] and exactly that interval.
C21_GetTimeQuery ==
  [][GetTimeStep =>
       /\ ev'.err = ErrNil
       /\ kern' = kern
       /\ kern'.armed = kern.armed /\ TimerCount(kern') = TimerCount(kern)
       /\ ~kern.armed => (ev'.val = 0 /\ ev'.val2 = script.arg[2])
       /\ (script.by = "none" \/ script.arg = <<0, 0>>)
            => (ev'.val = 0 /\ ev'.val2 = 0)
       /\ (script.by = "TimerFD.Arm" /\ NotedArmed /\ kern.now < NotedFirst)
            => /\ ev'.val \in 1..script.arg[1]
               /\ ev'.val = NotedFirst - kern.now
               /\ ev'.val2 = script.arg[2]]_vars

\* C21 witness: GetTime() has returned on a periodic timer armed by Arm some
\* time ago and not yet expired, with the time left and the interval.
C21_Witness ==
  /\ ev.done /\ ev.op = "TimerFD.GetTime" /\ ev.err = ErrNil
  /\ script.by = "TimerFD.Arm" /\ NotedArmed /\ script.arg[2] > 0
  /\ kern.now > script.at /\ kern.now < NotedFirst
  /\ ev.val = NotedFirst - kern.now /\ ev.val2 = script.arg[2]
  /\ kern.armed

\* C22: for a signal number outside [1, 64] Add and Del leave the set as it
\* was and Has returns false; for a number inside, Has is true after Add and
\* false after Del, and the membership of every other signal is as before.
\* Has never changes the set.
C22_SigSetBounds ==
  /\ script.op \in {"Add", "Del"} /\ (script.sig < 1 \/ script.sig > 64)
       => script.after = script.before /\ ~SigSet_Has(script.after, script.sig)
  /\ script.op = "Has" /\ (script.sig < 1 \/ script.sig > 64) => ~script.has
  /\ script.op = "Add" /\ script.sig \in 1..64 => SigSet_Has(script.after, script.sig)
  /\ script.op = "Del" /\ script.sig \in 1..64 => ~SigSet_Has(script.after, script.sig)
  /\ script.op \in {"Add", "Del"} =>
       \A t \in (1..64) \ {script.sig} :
         SigSet_Has(script.after, t) = SigSet_Has(script.before, t)
  /\ script.op = "Has" =>
       /\ script.after = script.before
       /\ script.sig \in 1..64 => (script.has <=> (script.sig - 1) \in script.before)
  /\ script.after \subseteq 0..63

\* C22 witness: Add(65) has left a set that holds signal 64 and not signal 1
\* as it was.
C22_Witness ==
  /\ script.op = "Add" /\ script.sig = 65
  /\ script.after = script.before
  /\ SigSet_Has(script.after, 64) /\ ~SigSet_Has(script.after, 1)

\* the step is the return of a SetMask(mask)
SetMaskReturn == ev'.done /\ ev'.op = "SignalFD.SetMask"

\* the signals the kernel monitors after signalfd4 was given the mask: it
\* drops SIGKILL and SIGSTOP, which cannot be monitored
Monitored(mask) == SigSetMembers(mask) \ {SIGKILL, SIGSTOP}

\* C23 as stated: when SetMask(mask) succeeds the kernel-side mask and the
\* cached mask both equal the new mask.
C23_BothEqualNew ==
  [][(SetMaskReturn /\ ev'.err = ErrNil) =>
       /\ obj'.mask = ev'.arg[1]
       /\ kern'.sigmask = SigSetMembers(ev'.arg[1])]_vars

\* C23: SetMask(mask) is never partially applied.  When it succeeds the
\* cached mask returned by Mask() is the new mask and the kernel-side mask
\* is the new mask less SIGKILL and SIGSTOP; when it fails (closed handle or
\* kernel error) both keep their previous values.  Nothing else changes
\* either mask.
C23_SetMaskWhole ==
  [][/\ SetMaskReturn =>
          IF ev'.err = ErrNil
          THEN obj'.mask = ev'.arg[1] /\ kern'.sigmask = Monitored(ev'.arg[1])
          ELSE /\ ev'.err \in {ErrClosed, errFromErrno(EBADF)}
               /\ obj'.mask = obj.mask /\ kern'.sigmask = kern.sigmask
               /\ call[User].op = "SignalFD.SetMask"
                    => kern.sigmask = Monitored(obj.mask)
     /\ obj'.mask # obj.mask => (SetMaskReturn /\ ev'.err = ErrNil)
     /\ (kind = "SignalFD" /\ kern'.sigmask # kern.sigmask)
          => (ev'.op = "SignalFD.SetMask" /\ ~ev'.done /\ ev'.nsys = 1)]_vars

\* C23 witness: SetMask of {SIGHUP, SIGKILL} has succeeded on a handle that
\* monitored nothing; Mask() is the new mask and the kernel monitors SIGHUP.
C23_Witness ==
  /\ ev.done /\ ev.op = "SignalFD.SetMask" /\ ev.err = ErrNil
  /\ ev.arg[1] = 2^(SIGKILL - 1) + 1
  /\ obj.mask = ev.arg[1] /\ kern.sigmask = {1}
  /\ hist.h0 >= 0 /\ slot >= 0

\* no call is in progress on the handle
Quiescent == \A p \in Procs : call[p] = Idle

\* C24: in every quiescent state of an open SignalFD, after any interleaving
\* of SetMask calls, Mask() is the mask installed in the kernel (SIGKILL and
\* SIGSTOP, which the kernel never installs, left aside).
C24_MaskMatchesKernel ==
  (kind = "SignalFD" /\ slot >= 0 /\ Quiescent) => Monitored(obj.mask) = kern.sigmask

\* the step is the kernel call of a Read()
SigReadStep == ev'.done /\ ev'.op = "SignalFD.Read" /\ ev'.nsys = 1

\* C25: on an open SignalFD, Read() returns a pending signal of the
\* monitored mask, the lowest-numbered one, and removes that signal and no
\* other from the pending ones; with no pending signal in the mask it
\* returns WouldBlock and changes nothing.  Whatever the kernel call does,
\* fewer than 128 bytes with no error are InvalidParameter, never a record.
C25_ReadOneRecord ==
  [][/\ SigReadStep =>
          IF Deliverable(kern) # {}
          THEN /\ ev'.err = ErrNil
               /\ ev'.val \in kern.pending \cap kern.sigmask
               /\ \A s \in Deliverable(kern) : ev'.val <= s
               /\ kern'.pending = kern.pending \ {ev'.val}
               /\ kern'.sigmask = kern.sigmask /\ obj' = obj
          ELSE ev'.err = ErrWouldBlock /\ ev'.val = 0 /\ kern' = kern /\ obj' = obj
     /\ \A n \in 0..(signalInfoSize - 1) : SigReadResult(n, 0) = ErrInvalidParam
     /\ SigReadResult(signalInfoSize, 0) = ErrNil]_vars

\* C25 witness: with two signals of the mask pending, a Read() has returned
\* the first and left the second pending.
C25_Witness ==
  /\ ev.done /\ ev.op = "SignalFD.Read" /\ ev.err = ErrNil /\ ev.val = 1
  /\ kern.sigmask = {1, 2} /\ kern.pending = {2}
  /\ Quiescent

\* the call o with argument a is a buffer-taking variant given a buffer
\* shorter than the record it transfers
ShortBuffer(o, a) ==
  \/ o \in {"EventFD.Read", "TimerFD.ReadInto"} /\ a[1] < 8
  \/ o = "EventFD.Write" /\ Len(a) < 8
  \/ o = "SignalFD.ReadInto" /\ a[1] < 128

\* C26: EventFD.Read and EventFD.Write with fewer than 8 bytes,
\* TimerFD.ReadInto with fewer than 8 and SignalFD.ReadInto with fewer than
\* 128 return InvalidParameter without a kernel call, on an open and on a
\* closed handle alike, and leave counter, timer and signal queue as they
\* were; no such call ever gets as far as its kernel call.
C26_ShortBufferRejected ==
  [][/\ (ev'.op # "none" /\ ShortBuffer(ev'.op, ev'.arg)) =>
          /\ ev'.done /\ ev'.err = ErrInvalidParam /\ ev'.val = 0
          /\ ev'.nsys = 0 /\ ev'.sysfd = NoSys
          /\ kern' = kern /\ obj' = obj /\ slot' = slot
     /\ \A p \in Procs :
          call'[p] # Idle => ~ShortBuffer(call'[p].op, call'[p].arg)]_vars

\* C26 witness: SignalFD.ReadInto with a 127-byte buffer has returned
\* InvalidParameter while a signal of the mask is pending, and it still is.
C26_Witness ==
  /\ ev.done /\ ev.op = "SignalFD.ReadInto" /\ ev.arg[1] = signalInfoSize - 1
  /\ ev.err = ErrInvalidParam /\ ev.nsys = 0
  /\ slot >= 0 /\ Deliverable(kern) # {}

\* the step is the return of the constructor
NewPidStep == ev'.done /\ ev'.op = "NewPidFD"

\* C27: the constructor with pid <= 0 returns InvalidParameter and no
\* handle without a kernel call; with pid > 0 of no existing process it
\* returns the kernel's error (ESRCH), translated, and no handle, and no
\* descriptor stays open; and it returns a handle only for an existing
\* process, with the descriptor the kernel gave and the id it was given.
C27_ConstructorRejects ==
  [][NewPidStep =>
       /\ ev'.arg[1] <= 0 =>
            /\ ev'.err = ErrInvalidParam /\ ev'.nsys = 0 /\ kern' = kern
            /\ ~script'.made /\ slot' = InvalidFD /\ obj' = NoFields
       /\ (ev'.arg[1] > 0 /\ ev'.arg[1] \notin kern.procs) =>
            /\ ev'.nsys = 1 /\ ev'.kerr = ESRCH
            /\ ev'.err = errFromErrno(ESRCH) /\ ev'.err # ErrNil
            /\ ~script'.made /\ slot' = InvalidFD /\ obj' = NoFields
            /\ kern'.open = {}
       /\ ev'.arg[1] \in kern.procs =>
            /\ ev'.err = ErrNil /\ script'.made
            /\ slot' = ev'.val /\ slot' \in kern'.open /\ obj'.pid = ev'.arg[1]]_vars

\* C27 witness: the constructor has failed with ESRCH for an id that names
\* no process, and there is no handle and no open descriptor.
C27_Witness ==
  /\ ev.done /\ ev.op = "NewPidFD" /\ ev.arg[1] = MaxPid + 1
  /\ ev.kerr = ESRCH /\ ev.err = RawErrno(ESRCH)
  /\ ~script.made /\ slot = InvalidFD /\ kern.open = {}

\* C28: no SendSignal on the handle delivers a signal to a process that got
\* the id after the original process exited: every signal sent went to the
\* process the handle was opened on, and once that process has exited a
\* SendSignal fails, whether or not the id names a new process.
C28_OriginalOnly ==
  /\ kern.sentNew = {}
  /\ (ev.done /\ ev.op = "PidFD.SendSignal" /\ ev.err = ErrNil)
       => (kern.alive /\ (ev.arg[1] > 0 => ev.arg[1] \in kern.sent))
  /\ (ev.done /\ ev.op = "PidFD.SendSignal" /\ ev.nsys = 1 /\ ~kern.alive)
       => (ev.err # ErrNil /\ ev.kerr \in {EBADF, EINVAL, ESRCH})

\* C28 witness: a SendSignal of a signal on the open handle has failed with
\* ESRCH after the id was given to a new process; an earlier one had
\* reached the original process.
C28_Witness ==
  /\ ev.done /\ ev.op = "PidFD.SendSignal" /\ ev.arg[1] > 0
  /\ ev.kerr = ESRCH /\ slot >= 0
  /\ kern.reused /\ kern.sent # {} /\ kern.sentNew = {}

\* C29: once the constructor has returned a handle, the pid field is the id
\* it was given in every state, and every PID() returns it: after
\* SendSignal, GetFD and Close, after the process has exited and after its
\* id was reused.
C29_PidConstant ==
  script.made =>
    /\ obj.pid = script.pid /\ script.pid > 0
    /\ (ev.done /\ ev.op = "PidFD.PID") => (ev.val = script.pid /\ ev.err = ErrNil)

\* C29 witness: PID() has returned the constructor's id on a handle that
\* was closed, after a signal was sent and the id was reused.
C29_Witness ==
  /\ ev.done /\ ev.op = "PidFD.PID" /\ ev.val = script.pid /\ script.made
  /\ slot < 0 /\ kern.reused /\ kern.sent # {}

\* the step is the kernel call of the operation o of a MemFD, which returns
MemStep(o) == kind = "MemFD" /\ ev'.done /\ ev'.op = o /\ ev'.nsys = 1

\* C30: a new anonymous memory handle has size 0.  A successful Truncate(n)
\* makes the size n, larger or smaller than before, and a failed one leaves
\* it; Size() returns the size and leaves it; a Write that ends within the
\* size leaves it; and no step other than a Truncate or a Write changes the
\* size.  So the Size() that follows a successful Truncate(n) returns n.
C30_SizeFollowsTruncate ==
  /\ kind = "MemFD" => kern.size = 0
  /\ [][/\ (MemStep("MemFD.Truncate") /\ ev'.err = ErrNil) => kern'.size = ev'.arg[1]
        /\ (MemStep("MemFD.Truncate") /\ ev'.err # ErrNil) => kern'.size = kern.size
        /\ (MemStep("MemFD.Size") /\ ev'.err = ErrNil)
             => (ev'.val = kern.size /\ kern'.size = kern.size)
        /\ (MemStep("FD.Write") /\ kern.off + Len(ev'.arg) <= kern.size)
             => kern'.size = kern.size
        /\ (kind = "MemFD" /\ kern'.size # kern.size)
             => (MemStep("MemFD.Truncate") \/ MemStep("FD.Write"))]_vars

\* C30 witness: Size() has returned the size a Truncate gave the handle,
\* which nothing was written to or read from.
C30_Witness ==
  /\ kind = "MemFD" /\ ev.done /\ ev.op = "MemFD.Size" /\ ev.err = ErrNil
  /\ ev.val = MaxSize /\ kern.size = MaxSize /\ kern.off = 0

\* C31: a Truncate to a size within the file's limit, made on the open
\* handle, fails exactly when it shrinks the file and the Shrink seal is
\* set or it grows the file and the Grow seal is set; a failed Truncate
\* leaves the size as it was and a successful one makes it the given size.
\* So with only the Shrink seal set a smaller size is refused and a larger
\* one accepted.
C31_SealChecksIndependent ==
  [][(MemStep("MemFD.Truncate") /\ ev'.kerr # EBADF
      /\ ev'.arg[1] \in 0..kern.limit) =>
       /\ ev'.err # ErrNil <=>
            \/ ev'.arg[1] < kern.size /\ HasBit(kern.seals, F_SEAL_SHRINK)
            \/ ev'.arg[1] > kern.size /\ HasBit(kern.seals, F_SEAL_GROW)
       /\ ev'.err # ErrNil => (ev'.err = ErrPermission /\ kern'.size = kern.size)
       /\ ev'.err = ErrNil => kern'.size = ev'.arg[1]
       /\ kern'.seals = kern.seals]_vars

\* C31 witness: with only the Shrink seal set, a Truncate to a smaller size
\* has failed on a file that had grown to its largest size.
C31_Witness ==
  /\ kind = "MemFD" /\ ev.done /\ ev.op = "MemFD.Truncate"
  /\ ev.err = ErrPermission /\ ev.arg[1] = 1
  /\ kern.seals = F_SEAL_SHRINK /\ kern.size = MaxSize + 1 /\ slot >= 0

\* every seal bit of the set a is in the set b
SealsWithin(a, b) == \A s \in SealBits : HasBit(a, s) => HasBit(b, s)

\* C32: the seal set only grows.  No step, a failed Seal, Truncate or Write
\* included, takes a bit out of the kernel's seal set, and a successful
\* Seals() returns that set; so what Seals() returns later holds every bit
\* it returned earlier.
C32_SealsOnlyGrow ==
  [][/\ SealsWithin(kern.seals, kern'.seals)
     /\ (MemStep("MemFD.Seals") /\ ev'.err = ErrNil)
          => (ev'.val = kern.seals /\ kern'.seals = kern.seals)
     /\ (ev'.done /\ ev'.err # ErrNil) => kern'.seals = kern.seals]_vars

\* C32 witness: Seals() has returned the seals Shrink, Grow and Seal, which
\* it took more than one Seal call to add.
C32_Witness ==
  /\ kind = "MemFD" /\ ev.done /\ ev.op = "MemFD.Seals" /\ ev.err = ErrNil
  /\ ev.val = F_SEAL_SHRINK + F_SEAL_GROW + F_SEAL_SEAL

\* the step is the return of a Seal(bits)
SealReturn == kind = "MemFD" /\ ev'.done /\ ev'.op = "MemFD.Seal"

\* C33: once the seal-the-seals bit is in the seal set, every Seal(bits)
\* fails, whatever the bits (none, valid ones, or bits that are no seal),
\* and leaves the seal set exactly as it was; on the open handle the error
\* is Permission, or InvalidParameter for bits that are no seal.
C33_SealedSeals ==
  [][(SealReturn /\ HasBit(kern.seals, F_SEAL_SEAL)) =>
       /\ ev'.err # ErrNil
       /\ kern'.seals = kern.seals
       /\ ev'.nsys = 1 =>
            ev'.err = IF ev'.arg[1] > AllSeals THEN ErrInvalidParam ELSE ErrPermission]_vars

\* C33 witness: on a handle created with sealing allowed, whose seal set
\* got the seal-the-seals bit after the Shrink seal, a Seal(Grow) has failed
\* with Permission and the set is as before.
C33_Witness ==
  /\ kind = "MemFD" /\ ev.done /\ ev.op = "MemFD.Seal" /\ ev.arg[1] = F_SEAL_GROW
  /\ ev.err = ErrPermission /\ kern.seals = F_SEAL_SEAL + F_SEAL_SHRINK

\* C34: on a handle created by NewMemFD every Seal(bits) fails and the seal
\* set stays as it was.  On a handle created by NewMemFDSealed the seal set
\* is empty at first, a Seal(bits) that succeeds adds exactly the bits
\* given, and Seal(bits) succeeds whenever the handle is open, the bits are
\* seals and the seal-the-seals bit has not been added.
C34_SealingAllowed ==
  /\ script.sealing => kern.seals = 0
  /\ [][SealReturn =>
          /\ ~script.sealing => (ev'.err # ErrNil /\ kern'.seals = kern.seals)
          /\ (script.sealing /\ ev'.err = ErrNil)
               => kern'.seals = BitOr(kern.seals, ev'.arg[1])
          /\ (script.sealing /\ ev'.nsys = 1 /\ ev'.arg[1] <= AllSeals
              /\ ~HasBit(kern.seals, F_SEAL_SEAL)) => ev'.err = ErrNil]_vars

\* C34 witness: on a handle created by NewMemFD a Seal(Shrink) has failed
\* with Permission and the file has no seal but the one it was created with.
C34_Witness ==
  /\ kind = "MemFD" /\ ev.done /\ ev.op = "MemFD.Seal" /\ ev.arg[1] = F_SEAL_SHRINK
  /\ ~script.sealing /\ ev.err = ErrPermission /\ kern.seals = F_SEAL_SEAL

\* the numbers the two FDs hold, of those that are not closed
HeldFds == {h \in {slot, script.other} : h >= 0}

\* C35: a successful Dup() on an open FD returns a number that was not open
\* before and differs from the original's, and leaves both open on the same
\* counter.  The two FDs are independent: a Close of one releases its own
\* number only, every number held by an FD that was not closed is open and
\* reads the one counter, and the kernel object has no open number left only
\* when both FDs are closed.
C35_DupIndependent ==
  /\ (call[User] = Idle /\ ~DupPending) =>
       /\ HeldFds \subseteq kern.open
       /\ kern.open \subseteq HeldFds
       /\ kern.open = {} <=> (slot < 0 /\ script.other < 0)
  /\ DupPending =>
       /\ ev.val # ev.raw /\ ev.val >= 0 /\ ev.raw = slot
       /\ {ev.val, ev.raw} \subseteq kern.open
  /\ (ev.done /\ ev.op = "FD.Read" /\ ev.nsys = 1 /\ ev.arg[1] >= eventfdSize) =>
       /\ ev.raw \in kern.open
       /\ ev.err \in {ErrNil, ErrWouldBlock}
       /\ ev.err = ErrNil => (ev.val2 > 0 /\ kern.counter = 0)
  /\ (ev.done /\ ev.op = "Close" /\ ev.nsys = 1) =>
       /\ ev.raw \notin kern.open
       /\ script.other >= 0 => script.other \in kern.open

\* C35 witness: after the original was closed, a Read through the duplicate
\* has returned the value written through the original.
C35_Witness ==
  /\ ev.done /\ ev.op = "FD.Read" /\ ev.err = ErrNil /\ ev.val2 = 1
  /\ script.made /\ script.cur = "duplicate" /\ script.other < 0
  /\ slot >= 0 /\ slot = ev.raw /\ slot # hist.h0 /\ kern.open = {slot}

\* the step on which the operation o, having made its two kernel calls,
\* returns nil
FlagStep(o) == ev'.done /\ ev'.op = o /\ ev'.nsys = 2 /\ ev'.err = ErrNil

\* C36: a successful SetNonblock(b) leaves O_NONBLOCK equal to b and changes
\* nothing else, a successful SetCloexec(b) leaves the FD_CLOEXEC flag of its
\* descriptor equal to b and changes nothing else, and either one changes
\* nothing at all when the flag is equal to b already, as it is after a first
\* call with the same b.
C36_FlagFrame ==
  [][/\ FlagStep("FD.SetNonblock") =>
          /\ "O_NONBLOCK" \in kern'.fl <=> ev'.arg[1] = 1
          /\ kern'.fl \ {"O_NONBLOCK"} = kern.fl \ {"O_NONBLOCK"}
          /\ kern' = [kern EXCEPT !.fl = kern'.fl]
          /\ ("O_NONBLOCK" \in kern.fl <=> ev'.arg[1] = 1) => kern' = kern
     /\ FlagStep("FD.SetCloexec") =>
          /\ ev'.raw \in kern'.cloexec <=> ev'.arg[1] = 1
          /\ kern'.cloexec \ {ev'.raw} = kern.cloexec \ {ev'.raw}
          /\ kern' = [kern EXCEPT !.cloexec = kern'.cloexec]
          /\ (ev'.raw \in kern.cloexec <=> ev'.arg[1] = 1) => kern' = kern]_vars

\* C36 witness: SetNonblock(false) has returned nil on a file that keeps
\* O_APPEND, with a second descriptor that is close-on-exec while the one of
\* the FD is not.
C36_Witness ==
  /\ ev.done /\ ev.op = "FD.SetNonblock" /\ ev.err = ErrNil /\ ev.arg = BoolArg(FALSE)
  /\ kern.fl = {"O_RDWR", "O_APPEND"}
  /\ slot \notin kern.cloexec /\ kern.cloexec # {}

\* the step on which the operation of goroutine p makes a kernel call
KernelStep(p) == call[p] # Idle /\ call'[p] # call[p] /\ ev'.sysfd # NoSys

\* the kernel calls the code of the operation o has in sequence
CallsOf(o) == IF o \in {"FD.SetNonblock", "FD.SetCloexec"} THEN 2 ELSE 1

\* C37: no operation makes a kernel call again.  Each step makes one call,
\* an operation makes no more calls than its code has in sequence, a call on
\* a number that is not open (EBADF) is the operation's last step and changes
\* nothing, and an operation whose last call failed returns that errno
\* translated.
C37_NoRetry ==
  [][\A p \in Procs :
       KernelStep(p) =>
         /\ ev'.op = call[p].op
         /\ ev'.nsys = call[p].nsys + 1
         /\ ev'.nsys <= CallsOf(call[p].op)
         /\ call[p].raw \notin kern.open =>
              /\ ev'.done /\ call'[p] = Idle
              /\ ev'.kerr = EBADF /\ ev'.err = errFromErrno(EBADF)
              /\ kern' = kern
         /\ (ev'.done /\ ev'.kerr # 0) =>
              /\ ev'.err = errFromErrno(ev'.kerr)
              /\ call'[p] = Idle]_vars

\* C37 witness: the first kernel call of SetNonblock failed and the
\* operation returned the error without making its second call.
C37_Witness ==
  /\ ev.done /\ ev.op = "FD.SetNonblock" /\ ev.nsys = 1
  /\ ev.kerr = EBADF /\ ev.err = ErrClosed
  /\ call[User] = Idle

\* the goroutine is in a kernel call that does not return
Asleep == call[User] # Idle /\ ~ENABLED OpStep

\* the resource has nothing to read
NotReady(k) ==
  CASE k.type = "eventfd" -> k.counter = 0
    [] k.type = "timerfd" -> TimerCount(k) = 0
    [] k.type = "signalfd" -> Deliverable(k) = {}
    [] OTHER -> FALSE

\* the step is the kernel call of a read of a whole record on an open handle
RecordRead ==
  /\ ev'.done /\ ev'.nsys = 1 /\ ev'.sysfd \in kern.open
  /\ \/ ev'.op \in {"EventFD.Wait", "TimerFD.Read", "SignalFD.Read"}
     \/ ev'.op = "FD.Read" /\ ev'.arg[1] >= eventfdSize

C39_FailedCloseIsFinal ==
  /\ (ev.done /\ ev.op = "Close") => slot = InvalidFD
  /\ CloseFailed =>
       /\ ev.err = errFromErrno(ev.kerr) /\ ev.err # ErrNil
       /\ ev.nsys = 1 /\ ev.sysfd = hist.h0
       /\ hist.closeCalls = <<hist.h0>>
       /\ \A p \in Procs : call[p].op # "Close"
       /\ ~script.failed
  /\ script.failed =>
       /\ slot = InvalidFD
       /\ hist.closeCalls = <<hist.h0>>
       /\ \A p \in Procs : call[p].pc # "release"
       /\ (ev.done /\ ev.op = "Close") =>
            (ev.err = ErrNil /\ ev.nsys = 0 /\ ev.raw = InvalidFD)

\* C39 witness: a Close() has returned Interrupted from the release, and a
\* Close() after it has returned nil.
C39_Witness ==
  /\ script.failed /\ script.err = ErrInterrupted
  /\ ev.done /\ ev.op = "Close" /\ ev.err = ErrNil
  /\ slot = InvalidFD

\* what the call that has just returned adds to the sums
JustSent == IF Returned("EventFD.Signal") THEN ev.arg[1] ELSE 0
JustGot == IF Returned("EventFD.Wait") THEN ev.val ELSE 0

\* C40: in every state of every interleaving, the values returned by the
\* successful Waits plus the counter equal the initial value plus the deltas
\* of the successful Signals; a call that has not made its kernel call or
\* that failed has neither added nor taken anything.
C40_Conserved ==
  script.got + JustGot + kern.counter = script.init + script.sent + JustSent

\* C40 witness: Signals and Waits have succeeded before, the
\* counter holds a value, and one goroutine is in a Signal while another is
\* in a Wait.
C40_Witness ==
  /\ script.got > 0 /\ script.sent > script.got /\ kern.counter > 0
  /\ \E p \in Procs, q \in Procs :
       /\ p # q
       /\ At(p, "EventFD.Signal", "write")
       /\ At(q, "EventFD.Wait", "read")

====
